---- MODULE Spec2Model ----
(***************************************************************************)
(* A model of the equake library: the count requester of quake.py and      *)
(* _requests.py (one call of count(), attempt by attempt, and calls on two *)
(* threads at once), the filters of filt.py (one range filter, one time    *)
(* filter, one location filter and one earthquake filter, each under       *)
(* construction and setter calls) and the query serializer of              *)
(* _requests.py applied to an earthquake filter.                           *)
(*                                                                         *)
(* Python values are records [ty, k, v]: ty is the Python type, k is       *)
(* "fin", "inf" or "nan" for numbers ("obj" for everything else) and v the *)
(* integer value (the sign for an infinity).  Comparisons follow IEEE 754  *)
(* as Python's do: every ordered comparison with a NaN is false.           *)
(***************************************************************************)
EXTENDS Integers, Sequences, FiniteSets

VARIABLES
    pc,          \* position of the count() call: "idle", "loop", "returned", "raised"
    args,        \* the arguments count() was called with
    retry_count, \* the local retry_count after quake.py:70-72
    i,           \* iterations of the for loop of quake.py:73 completed
    calls,       \* request.urlopen calls issued (_requests.py:91)
    log,         \* outcome of every attempt, as _count handed it to count()
    result,      \* what count() returned or raised
    rf,          \* the range filter object (or NoObject before construction)
    last,        \* the last range filter operation: what was asked, the state before, the outcome
    tf,          \* the TimeFilter object (or NoTime before construction)
    tlast,       \* the last TimeFilter operation
    loc,         \* the location filter object (or NoLocation before construction)
    llast,       \* the last location filter operation
    ef,          \* the EarthquakeFilter object (or NoEarthquake before construction)
    elast,       \* the last EarthquakeFilter operation
    query,       \* the last _get_query_string call: the filter, the limit, the outcome
    th,          \* the count() call of every thread: its arguments, position and log
    ref,         \* the field of ef that refers to the caller's object rf, or "none"
    text,        \* what the last str(depth_filter) call returned, line by line
    conv         \* the last _convert_units call: its arguments, the table after it, its outcome

countVars == <<pc, args, retry_count, i, calls, log, result>>
rangeVars == <<rf, last>>
timeVars == <<tf, tlast>>
locVars == <<loc, llast>>
eqVars == <<ef, elast>>
filterVars == <<rf, last, tf, tlast, loc, llast, ef, elast>>
queryVars == <<query>>
threadVars == <<th>>
refVars == <<ref>>
textVars == <<text>>
convVars == <<conv>>
vars == <<pc, args, retry_count, i, calls, log, result,
          rf, last, tf, tlast, loc, llast, ef, elast, query, th, ref, text, conv>>

----------------------------------------------------------------------------
(* Python values *)

PyNone == [ty |-> "NoneType", k |-> "obj", v |-> 0]
PyStr == [ty |-> "str", k |-> "obj", v |-> 0]
PyObj(cls) == [ty |-> cls, k |-> "obj", v |-> 0]
PyInt(n) == [ty |-> "int", k |-> "fin", v |-> n]
PyFloat(n) == [ty |-> "float", k |-> "fin", v |-> n]
PosInf == [ty |-> "float", k |-> "inf", v |-> 1]
NegInf == [ty |-> "float", k |-> "inf", v |-> -1]
NaN == [ty |-> "float", k |-> "nan", v |-> 0]

\* isinstance(x, (int, float))
IsNumber(x) == x.ty \in {"int", "float"}
\* isinstance(x, int)
IsInt(x) == x.ty = "int"

\* a < b on Python numbers
Lt(a, b) ==
    /\ a.k # "nan"
    /\ b.k # "nan"
    /\ \/ a.k = "fin" /\ b.k = "fin" /\ a.v < b.v
       \/ a.k = "inf" /\ a.v = -1 /\ ~(b.k = "inf" /\ b.v = -1)
       \/ b.k = "inf" /\ b.v = 1 /\ ~(a.k = "inf" /\ a.v = 1)
\* a > b
Gt(a, b) == Lt(b, a)
\* a == b on Python numbers (1 == 1.0; nan == nan is false)
NumEq(a, b) == a.k # "nan" /\ b.k # "nan" /\ a.k = b.k /\ a.v = b.v
\* a <= b
Le(a, b) == Lt(a, b) \/ NumEq(a, b)

----------------------------------------------------------------------------
(* Bounds of the model *)

\* The largest numeric retry_count a caller passes.
MaxRetry == 4
\* The cap on the number of retries: 10^15 in the source (quake.py:17), far
\* beyond what can be enumerated; the model runs the same code with this
\* smaller cap, below MaxRetry so that the clamp of a numeric budget happens.
RetryCap == 3

----------------------------------------------------------------------------
(* quake.py: count() *)

\* Timeouts are in hundredths of a second: MIN_TIMEOUT is 0.01 s, MAX_TIMEOUT 86400 s.
MIN_TIMEOUT == 1
MAX_TIMEOUT == 8640000
MIN_RETRY_COUNT == 0
MAX_RETRY_COUNT == RetryCap

NoError == [kind |-> "none", cls |-> "none", cause |-> "none", value |-> 0, attempt |-> 0]
Raise(cls, cause, n) == [kind |-> "raise", cls |-> cls, cause |-> cause, value |-> 0, attempt |-> n]
Return(c, n) == [kind |-> "return", cls |-> "int", cause |-> "none", value |-> c, attempt |-> n]

\* The argument checks of count(), in the order of the code: the error raised, or NoError.
ValidateArgs(a) ==
    IF a.earthquake_filter.ty # "EarthquakeFilter"
    THEN Raise("TypeError", "earthquake_filter", 0)
    ELSE IF ~(a.timeout = PyNone \/ IsNumber(a.timeout))
    THEN Raise("TypeError", "timeout", 0)
    ELSE IF ~(a.retry_count = PyNone \/ IsInt(a.retry_count))
    THEN Raise("TypeError", "retry_count", 0)
    ELSE IF a.timeout # PyNone /\ Lt(a.timeout, PyInt(MIN_TIMEOUT))
    THEN Raise("ValueError", "timeout", 0)
    ELSE IF a.timeout # PyNone /\ Gt(a.timeout, PyInt(MAX_TIMEOUT))
    THEN Raise("ValueError", "timeout", 0)
    ELSE IF a.retry_count # PyNone /\ Lt(a.retry_count, PyInt(MIN_RETRY_COUNT))
    THEN Raise("ValueError", "retry_count", 0)
    ELSE NoError

Min(a, b) == IF a < b THEN a ELSE b

ClampRetry_OffByOne(rc) ==
    Min(IF rc = PyNone THEN MAX_RETRY_COUNT ELSE rc.v, MAX_RETRY_COUNT) + 1

\* retry_count = min(MAX_RETRY_COUNT if retry_count is None else retry_count, MAX_RETRY_COUNT)
ClampRetry(rc) ==
    Min(IF rc = PyNone THEN MAX_RETRY_COUNT ELSE rc.v, MAX_RETRY_COUNT)

----------------------------------------------------------------------------
(* _requests.py: _count() and _handle_errors() *)

\* The counts the service answers with.
Counts == {0, 7}

\* What the body of _count does on one call, before _handle_errors sees it:
\* it returns the count of the JSON body, or raises.  urlopen raises
\* urllib.error.HTTPError for a non-2xx answer; it wraps an OSError of the
\* connect/send phase, a timeout included, in urllib.error.URLError; a timeout or
\* a dropped connection while the response is received or read is raised as it
\* is (TimeoutError, ConnectionResetError); json.loads and ["count"] raise
\* JSONDecodeError and KeyError on a body that is not the expected one.
RawOutcomes(n) ==
    {Return(c, n) : c \in Counts} \cup
    {Raise("urllib.HTTPError", "non2xx", n),
     Raise("urllib.URLError", "connection", n),
     Raise("urllib.URLError", "timeout", n),
     Raise("TimeoutError", "timeout", n),
     Raise("ConnectionResetError", "connection", n),
     Raise("JSONDecodeError", "body", n),
     Raise("KeyError", "body", n)}

\* isinstance(e, base) for the exception classes above.
IsInstance(cls, base) ==
    \/ cls = base
    \/ base = "urllib.URLError" /\ cls = "urllib.HTTPError"
    \/ base = "Exception"

\* The decorator _handle_errors: the except clauses in their order.
HandleErrors(raw) ==
    IF raw.kind # "raise" THEN raw
    ELSE IF IsInstance(raw.cls, "urllib.HTTPError")
    THEN [raw EXCEPT !.cls = "equake.HTTPError"]
    ELSE IF IsInstance(raw.cls, "urllib.URLError")
    THEN [raw EXCEPT !.cls = "equake.RequestError"]
    ELSE IF IsInstance(raw.cls, "TimeoutError")
    THEN [raw EXCEPT !.cls = "TimeoutError"]
    ELSE raw

\* with suppress(Exception): does the context manager swallow e?
Suppressed(e) == e.kind = "raise" /\ IsInstance(e.cls, "Exception")

----------------------------------------------------------------------------
(* The count() call, step by step *)

FilterArgs == {PyObj("EarthquakeFilter"), PyObj("TimeFilter")}
TimeoutArgs ==
    {PyNone, PyStr, PyInt(0), PyInt(MIN_TIMEOUT), PyFloat(MAX_TIMEOUT),
     PyInt(MAX_TIMEOUT + 1), PosInf, NaN}
RetryArgs ==
    {PyNone, PyStr, PyFloat(1), PyInt(-1)} \cup {PyInt(n) : n \in 0..MaxRetry}

NoArgs == [earthquake_filter |-> PyNone, timeout |-> PyNone, retry_count |-> PyNone]


\* quake.py:53-72: the argument checks and the clamp of the budget.
CountCall ==
    /\ pc = "idle"
    /\ \E f \in FilterArgs, t \in TimeoutArgs, r \in RetryArgs :
        LET a == [earthquake_filter |-> f, timeout |-> t, retry_count |-> r]
            err == ValidateArgs(a)
        IN /\ args' = a
           /\ IF err # NoError
              THEN /\ pc' = "raised"
                   /\ result' = err
                   /\ retry_count' = 0
              ELSE /\ pc' = "loop"
                   /\ result' = NoError
                   /\ retry_count' = ClampRetry(r)
    /\ UNCHANGED <<i, calls, log, filterVars, queryVars, threadVars, refVars, textVars, convVars>>

AttemptInLoop_NoReturn ==
    /\ pc = "loop"
    /\ i < retry_count
    /\ \E raw \in RawOutcomes(Len(log) + 1) :
        LET out == HandleErrors(raw)
        IN /\ calls' = calls + 1
           /\ log' = Append(log, out)
           /\ IF out.kind = "raise" /\ ~Suppressed(out)
              THEN /\ pc' = "raised" /\ result' = out /\ i' = i
              ELSE /\ pc' = "loop" /\ result' = result /\ i' = i + 1
    /\ UNCHANGED <<args, retry_count, filterVars, queryVars, threadVars, refVars, textVars, convVars>>

AttemptInLoop_NoProgress ==
    /\ pc = "loop"
    /\ i < retry_count
    /\ \E raw \in RawOutcomes(Len(log) + 1) :
        LET out == HandleErrors(raw)
        IN /\ calls' = calls + 1
           /\ log' = Append(log, out)
           /\ IF out.kind = "return"
              THEN /\ pc' = "returned" /\ result' = out /\ i' = i
              ELSE IF Suppressed(out)
              THEN /\ pc' = "loop" /\ result' = result /\ i' = i
              ELSE /\ pc' = "raised" /\ result' = out /\ i' = i
    /\ UNCHANGED <<args, retry_count, filterVars, queryVars, threadVars, refVars, textVars, convVars>>

\* quake.py:73-75: one iteration of the for loop, "with suppress(Exception):
\* return _requests._count(earthquake_filter, timeout)".
AttemptInLoop ==
    /\ pc = "loop"
    /\ i < retry_count
    /\ \E raw \in RawOutcomes(Len(log) + 1) :
        LET out == HandleErrors(raw)
        IN /\ calls' = calls + 1
           /\ log' = Append(log, out)
           /\ IF out.kind = "return"
              THEN /\ pc' = "returned" /\ result' = out /\ i' = i
              ELSE IF Suppressed(out)
              THEN /\ pc' = "loop" /\ result' = result /\ i' = i + 1
              ELSE /\ pc' = "raised" /\ result' = out /\ i' = i
    /\ UNCHANGED <<args, retry_count, filterVars, queryVars, threadVars, refVars, textVars, convVars>>

AttemptLast_RaiseFirst ==
    /\ pc = "loop"
    /\ i = retry_count
    /\ \E raw \in RawOutcomes(Len(log) + 1) :
        LET out == HandleErrors(raw)
        IN /\ calls' = calls + 1
           /\ log' = Append(log, out)
           /\ pc' = IF out.kind = "return" THEN "returned" ELSE "raised"
           /\ result' = IF out.kind = "return" THEN out ELSE Append(log, out)[1]
    /\ UNCHANGED <<args, retry_count, i, filterVars, queryVars, threadVars, refVars, textVars, convVars>>

\* quake.py:77: the last chance, "return _requests._count(earthquake_filter, timeout)".
AttemptLast ==
    /\ pc = "loop"
    /\ i = retry_count
    /\ \E raw \in RawOutcomes(Len(log) + 1) :
        LET out == HandleErrors(raw)
        IN /\ calls' = calls + 1
           /\ log' = Append(log, out)
           /\ pc' = IF out.kind = "return" THEN "returned" ELSE "raised"
           /\ result' = out
    /\ UNCHANGED <<args, retry_count, i, filterVars, queryVars, threadVars, refVars, textVars, convVars>>

NextCount == CountCall \/ AttemptInLoop \/ AttemptLast

----------------------------------------------------------------------------
(* count() called on several threads at once, as test_count does           *)

\* The threads, and the frame of a count() call that has not begun: the
\* arguments and the local variables of the call.
Threads == {1, 2}
NoThread ==
    [pc |-> "idle", args |-> NoArgs, retry_count |-> 0, i |-> 0, log |-> <<>>,
     result |-> NoError]

\* The locals of a call live in the frame of that call: a store by the call
\* of thread t changes the frame of thread t.  (No module of the library has
\* a global that count() or _count() assigns.)
Store_Global(t, frame) == [u \in Threads |-> frame]
Store(t, frame) == [th EXCEPT ![t] = frame]

\* quake.py:53-72 on thread t, with the thread's own filter.
ThreadCall(t) ==
    /\ th[t].pc = "idle"
    /\ \E r \in {PyInt(-1), PyInt(0), PyInt(1), PyInt(2)} :
        LET a == [earthquake_filter |-> [PyObj("EarthquakeFilter") EXCEPT !.v = t],
                  timeout |-> PyNone, retry_count |-> r]
            err == ValidateArgs(a)
        IN th' = Store(t, IF err # NoError
                          THEN [NoThread EXCEPT !.pc = "raised", !.args = a, !.result = err]
                          ELSE [NoThread EXCEPT !.pc = "loop", !.args = a,
                                                !.retry_count = ClampRetry(r)])
    /\ UNCHANGED <<countVars, filterVars, queryVars, refVars, textVars, convVars>>

\* quake.py:73-77 on thread t: one attempt, in the loop or the last chance;
\* the service answers with a count, a non-2xx status or not in time.
ThreadAttempt(t) ==
    /\ th[t].pc = "loop"
    /\ \E raw \in {o \in RawOutcomes(Len(th[t].log) + 1) :
                        o.cls \in {"int", "urllib.HTTPError", "TimeoutError"}} :
        LET out == HandleErrors(raw)
            frame == [th[t] EXCEPT !.log = Append(th[t].log, out)]
        IN th' = Store(t, IF out.kind = "return"
                          THEN [frame EXCEPT !.pc = "returned", !.result = out]
                          ELSE IF th[t].i < th[t].retry_count /\ Suppressed(out)
                          THEN [frame EXCEPT !.i = th[t].i + 1]
                          ELSE [frame EXCEPT !.pc = "raised", !.result = out])
    /\ UNCHANGED <<countVars, filterVars, queryVars, refVars, textVars, convVars>>

NextThreads == \E t \in Threads : ThreadCall(t) \/ ThreadAttempt(t)

----------------------------------------------------------------------------
(* _utils.py: _convert_units(), and the units of filt.py *)

KM == "km"
MI == "mi"
\* DISTANCE_UNITS = {KM: 1, MI: 1.609344}, both scaled by 15625 to whole numbers.
DISTANCE_UNITS == [km |-> 15625, mi |-> 25146]

\* n / d rounded to the nearest whole number: the model's numbers are whole, as
\* a double is the nearest representable value of the exact product.
RoundDiv(n, d) == (2 * n + d) \div (2 * d)

\* The largest finite float (sys.float_info.max) on the model's scale: a
\* product beyond it is an infinity.
MaxFloat == 1000

\* value * (units[to] / units[_from]): the ratio the wrong way up.
ConvertUnits_Inverse(value, from, to, units) ==
    IF value.k = "fin"
    THEN LET r == RoundDiv(value.v * units[to], units[from])
         IN IF r > MaxFloat THEN PosInf
            ELSE IF r < -MaxFloat THEN NegInf
            ELSE PyFloat(r)
    ELSE value

\* value * (units[_from] / units[to]): a float; a product too large for a
\* float is an infinity, an infinity keeps its sign (the ratio is positive) and
\* a NaN stays a NaN.
ConvertUnits(value, from, to, units) ==
    IF value.k = "fin"
    THEN LET r == RoundDiv(value.v * units[from], units[to])
         IN IF r > MaxFloat THEN PosInf
            ELSE IF r < -MaxFloat THEN NegInf
            ELSE PyFloat(r)
    ELSE value

\* A call _convert_units(value, _from, to, units): units[_from] and units[to]
\* are dict lookups, a KeyError when the key is absent; the dict is only read.
ConvertUnitsCall(value, from, to, units) ==
    IF from \notin DOMAIN units \/ to \notin DOMAIN units
    THEN [err |-> "KeyError", value |-> PyNone, units |-> units]
    ELSE [err |-> "ok", value |-> ConvertUnits(value, from, to, units), units |-> units]

\* Tables of units as the tests draw them, the values scaled to whole numbers;
\* the names asked for, "ft" in no table; the values converted.
UnitTables == {DISTANCE_UNITS, [m |-> 2, km |-> 2000, mi |-> 3219]}
UnitNames == {KM, MI, "m", "ft"}
ConvertValues == {PyInt(0), PyInt(3), PyFloat(-7), PyFloat(700), PosInf, NegInf, NaN}
NoConvert == [op |-> "none", value |-> PyNone, from |-> "none", to |-> "none", units |-> DISTANCE_UNITS, after |-> DISTANCE_UNITS, outcome |-> "none", result |-> PyNone]

\* str.strip() on the strings the model passes.
Strip(str) ==
    CASE str = " km " -> "km"
      [] str = "mi " -> "mi"
      [] str = " red " -> "red"
      [] str = " green" -> "green"
      [] OTHER -> str

\* An argument that is not a str, where a unit string is expected.
NotAString == "<not a str>"

----------------------------------------------------------------------------
(* filt.py: _RangeFilter, DepthFilter, MagnitudeFilter, IntensityFilter *)

MIN_INTENSITY == 0
MAX_INTENSITY == 12

\* An attribute the object does not have yet (hasattr is false).
Unset == [ty |-> "unset", k |-> "obj", v |-> 0]
\* getattr(self, name, default)
GetAttr(x, default) == IF x = Unset THEN default ELSE x

NoObject == [cls |-> "none", min |-> Unset, max |-> Unset, amin |-> Unset, amax |-> Unset]
Ok(obj) == [err |-> "ok", obj |-> obj]
Err(cls) == [err |-> cls, obj |-> NoObject]

\* _RangeFilter._set_min
SetMin(self, min) ==
    IF Lt(min, self.amin) THEN Err("ValueError")
    ELSE IF Gt(min, GetAttr(self.max, PosInf)) THEN Err("ValueError")
    ELSE Ok([self EXCEPT !.min = min])

\* _RangeFilter._set_max
SetMax(self, max) ==
    IF Gt(max, self.amax) THEN Err("ValueError")
    ELSE IF Lt(max, GetAttr(self.min, NegInf)) THEN Err("ValueError")
    ELSE Ok([self EXCEPT !.max = max])

\* _RangeFilter.__init__
RangeInit(cls, min, max, actual_min, actual_max) ==
    LET self == [cls |-> cls, min |-> Unset, max |-> Unset,
                 amin |-> actual_min, amax |-> actual_max]
    IN IF ~IsNumber(min) THEN Err("TypeError")
       ELSE LET r1 == SetMin(self, min)
            IN IF r1.err # "ok" THEN r1
               ELSE IF ~IsNumber(max) THEN Err("TypeError")
               ELSE SetMax(r1.obj, max)

\* The property setters: the type check of _method_type_check, then the setter.
\* DepthFilter.min_km, MagnitudeFilter.min, IntensityFilter.min
PropSetMin(self, value) ==
    IF ~IsNumber(value) THEN Err("TypeError") ELSE SetMin(self, value)
\* DepthFilter.max_km, MagnitudeFilter.max, IntensityFilter.max
PropSetMax(self, value) ==
    IF ~IsNumber(value) THEN Err("TypeError") ELSE SetMax(self, value)
\* DepthFilter.min_mi
PropSetMinMi(self, value) ==
    IF ~IsNumber(value) THEN Err("TypeError")
    ELSE SetMin(self, ConvertUnits(value, MI, KM, DISTANCE_UNITS))
\* DepthFilter.max_mi
PropSetMaxMi(self, value) ==
    IF ~IsNumber(value) THEN Err("TypeError")
    ELSE SetMax(self, ConvertUnits(value, MI, KM, DISTANCE_UNITS))

\* DepthFilter.__init__
DepthInit_MinFirst(min_depth, max_depth, unit) ==
    LET r0 == RangeInit("DepthFilter", min_depth, max_depth, NegInf, PosInf)
    IN IF r0.err # "ok" THEN r0
       ELSE IF unit = NotAString THEN Err("TypeError")
       ELSE IF Strip(unit) = MI
       THEN LET r1 == PropSetMinMi(r0.obj, min_depth)
            IN IF r1.err # "ok" THEN r1
               ELSE PropSetMaxMi(r1.obj, max_depth)
       ELSE IF Strip(unit) # KM THEN Err("ValueError")
       ELSE r0
DepthInit(min_depth, max_depth, unit) ==
    LET r0 == RangeInit("DepthFilter", min_depth, max_depth, NegInf, PosInf)
    IN IF r0.err # "ok" THEN r0
       ELSE IF unit = NotAString THEN Err("TypeError")
       ELSE IF Strip(unit) = MI
       THEN LET r1 == PropSetMinMi(r0.obj, NegInf)
            IN IF r1.err # "ok" THEN r1
               ELSE LET r2 == PropSetMaxMi(r1.obj, max_depth)
                    IN IF r2.err # "ok" THEN r2
                       ELSE PropSetMinMi(r2.obj, min_depth)
       ELSE IF Strip(unit) # KM THEN Err("ValueError")
       ELSE r0

\* MagnitudeFilter.__init__
MagnitudeInit(min_mag, max_mag) ==
    RangeInit("MagnitudeFilter", min_mag, max_mag, NegInf, PosInf)

\* IntensityFilter.__init__
IntensityInit(min_intensity, max_intensity) ==
    RangeInit("IntensityFilter", min_intensity, max_intensity,
              PyInt(MIN_INTENSITY), PyInt(MAX_INTENSITY))

\* A line of DepthFilter.__str__: the depth in km and in miles, or "No
\* restriction"; and the text before a call.
DepthLine(km, mi) == [km |-> km, mi |-> mi]
NoRestriction == [km |-> Unset, mi |-> Unset]
NoText == [minimum |-> NoRestriction, maximum |-> NoRestriction, of |-> NoObject]

\* DepthFilter.__str__: the "Minimum depth" line and the "Maximum depth" line.
DepthStr(self) ==
    [minimum |-> IF ~NumEq(self.min, NegInf)
                 THEN DepthLine(self.min, ConvertUnits(self.min, KM, MI, DISTANCE_UNITS))
                 ELSE NoRestriction,
     maximum |-> IF ~NumEq(self.max, PosInf)
                 THEN DepthLine(self.min, ConvertUnits(self.min, KM, MI, DISTANCE_UNITS))
                 ELSE NoRestriction,
     of |-> self]

----------------------------------------------------------------------------
(* One range filter object: one constructor call, then setter calls on    *)
(* the object it made                                                      *)

\* The small whole numbers the callers pass, from -1 up to this one.
MaxSmall == 2

\* The values passed as an endpoint: a value that is no number, the infinities,
\* a NaN, a float, small integers and the integers around the top of the
\* intensity scale.
RangeArgs ==
    {PyStr, NegInf, PosInf, NaN, PyFloat(1)} \cup
    {PyInt(n) : n \in -1..MaxSmall} \cup
    {PyInt(n) : n \in (MAX_INTENSITY - 1)..(MAX_INTENSITY + 1)}
UnitArgs == {"km", " km ", "mi", "mi ", "KM", "XXX", NotAString}

NoOp == [op |-> "none", cls |-> "none", arg |-> PyNone, arg2 |-> PyNone,
         unit |-> "none", pre |-> NoObject, outcome |-> "none"]

\* The effect of a constructor call on the model's one object.
Constructed(cls, a, b, u, res) ==
    /\ rf' = IF res.err = "ok" THEN res.obj ELSE rf
    /\ last' = [op |-> "init", cls |-> cls, arg |-> a, arg2 |-> b, unit |-> u,
                pre |-> rf, outcome |-> res.err]
    /\ UNCHANGED <<countVars, queryVars, threadVars, refVars, timeVars, locVars, eqVars, textVars, convVars>>

\* The effect of a setter call: the object is replaced only when the call succeeds.
Assigned(op, a, u, res) ==
    /\ rf' = IF res.err = "ok" THEN res.obj ELSE rf
    /\ last' = [op |-> op, cls |-> rf.cls, arg |-> a, arg2 |-> PyNone, unit |-> u,
                pre |-> rf, outcome |-> res.err]
    /\ UNCHANGED <<countVars, queryVars, threadVars, refVars, timeVars, locVars, eqVars, textVars, convVars>>

\* DepthFilter(min_depth, max_depth, unit)
ConstructDepth ==
    /\ rf = NoObject /\ last = NoOp
    /\ \E a \in RangeArgs, b \in RangeArgs, u \in UnitArgs :
        Constructed("DepthFilter", a, b, u, DepthInit(a, b, u))

\* MagnitudeFilter(min_mag, max_mag)
ConstructMagnitude ==
    /\ rf = NoObject /\ last = NoOp
    /\ \E a \in RangeArgs, b \in RangeArgs :
        Constructed("MagnitudeFilter", a, b, KM, MagnitudeInit(a, b))

\* IntensityFilter(min_intensity, max_intensity)
ConstructIntensity ==
    /\ rf = NoObject /\ last = NoOp
    /\ \E a \in RangeArgs, b \in RangeArgs :
        Constructed("IntensityFilter", a, b, KM, IntensityInit(a, b))

\* depth_filter.min_km = value
SetMinKm ==
    /\ rf.cls = "DepthFilter"
    /\ \E value \in RangeArgs : Assigned("set_min", value, KM, PropSetMin(rf, value))

\* depth_filter.min_mi = value
SetMinMi ==
    /\ rf.cls = "DepthFilter"
    /\ \E value \in RangeArgs : Assigned("set_min", value, MI, PropSetMinMi(rf, value))

\* depth_filter.max_km = value
SetMaxKm ==
    /\ rf.cls = "DepthFilter"
    /\ \E value \in RangeArgs : Assigned("set_max", value, KM, PropSetMax(rf, value))

\* depth_filter.max_mi = value
SetMaxMi ==
    /\ rf.cls = "DepthFilter"
    /\ \E value \in RangeArgs : Assigned("set_max", value, MI, PropSetMaxMi(rf, value))

\* magnitude_filter.min = value, intensity_filter.min = value
SetMinProp ==
    /\ rf.cls \in {"MagnitudeFilter", "IntensityFilter"}
    /\ \E value \in RangeArgs : Assigned("set_min", value, KM, PropSetMin(rf, value))

\* magnitude_filter.max = value, intensity_filter.max = value
SetMaxProp ==
    /\ rf.cls \in {"MagnitudeFilter", "IntensityFilter"}
    /\ \E value \in RangeArgs : Assigned("set_max", value, KM, PropSetMax(rf, value))

\* str(depth_filter)
StrDepth ==
    /\ rf.cls = "DepthFilter"
    /\ text' = DepthStr(rf)
    /\ UNCHANGED <<countVars, queryVars, threadVars, refVars, filterVars, convVars>>

NextRender == ConstructDepth \/ StrDepth

\* _convert_units(value, _from, to, units)
ConvertCall ==
    /\ \E value \in ConvertValues, from \in UnitNames, to \in UnitNames, units \in UnitTables :
          LET res == ConvertUnitsCall(value, from, to, units)
          IN conv' = [op |-> "call", value |-> value, from |-> from, to |-> to, units |-> units, after |-> res.units, outcome |-> res.err, result |-> res.value]
    /\ UNCHANGED <<countVars, queryVars, threadVars, refVars, filterVars, textVars>>

NextConvert == ConvertCall

NextRange ==
    \/ ConstructDepth \/ ConstructMagnitude \/ ConstructIntensity
    \/ SetMinKm \/ SetMinMi \/ SetMaxKm \/ SetMaxMi
    \/ SetMinProp \/ SetMaxProp

----------------------------------------------------------------------------
(* filt.py: TimeFilter *)

DEFAULT_DAYS_GAP == 30
\* The latest day the callers pass.
MaxDay == 60

\* A datetime object: v is its instant in whole days since datetime.min
\* (1st January 1 AD), k tells a naive datetime from a timezone-aware one.
DateTime(d, k) == [ty |-> "datetime", k |-> k, v |-> d]
IsDateTime(x) == x.ty = "datetime"

NoTime == [cls |-> "none", start |-> Unset, end |-> Unset, updated |-> Unset]

\* TimeFilter.start setter.  Comparing a naive datetime with an aware one
\* raises TypeError.
TimeSetStart_NoCheck(self, start) ==
    IF ~IsDateTime(start) THEN Err("TypeError")
    ELSE Ok([self EXCEPT !.start = start])
TimeSetStart(self, start) ==
    IF ~IsDateTime(start) THEN Err("TypeError")
    ELSE IF self.end # Unset /\ start.k # self.end.k THEN Err("TypeError")
    ELSE IF self.end # Unset /\ start.v > self.end.v THEN Err("ValueError")
    ELSE Ok([self EXCEPT !.start = start])

\* TimeFilter.end setter
TimeSetEnd_StartFollows(self, end) ==
    IF ~IsDateTime(end) THEN Err("TypeError")
    ELSE IF self.start # Unset /\ end.k # self.start.k THEN Err("TypeError")
    ELSE IF self.start # Unset /\ end.v < self.start.v THEN Err("ValueError")
    ELSE Ok([self EXCEPT !.end = end,
                         !.start = IF self.start = Unset THEN Unset
                                   ELSE IF end.v - DEFAULT_DAYS_GAP < 0 THEN end
                                   ELSE [end EXCEPT !.v = end.v - DEFAULT_DAYS_GAP]])
TimeSetEnd(self, end) ==
    IF ~IsDateTime(end) THEN Err("TypeError")
    ELSE IF self.start # Unset /\ end.k # self.start.k THEN Err("TypeError")
    ELSE IF self.start # Unset /\ end.v < self.start.v THEN Err("ValueError")
    ELSE Ok([self EXCEPT !.end = end])

\* TimeFilter.updated setter
TimeSetUpdated(self, updated) ==
    IF ~IsDateTime(updated) THEN Err("TypeError")
    ELSE Ok([self EXCEPT !.updated = updated])

\* self.end - timedelta(DEFAULT_DAYS_GAP) raises OverflowError when the result
\* is earlier than datetime.min; the start is then the end itself.
DefaultStart(end) ==
    IF end.v - DEFAULT_DAYS_GAP < 0 THEN end
    ELSE DateTime(end.v - DEFAULT_DAYS_GAP, end.k)

\* TimeFilter.__init__: end, start, updated in this order; now is the value of
\* datetime.utcnow().
TimeInit_UpdatedFromEnd(start, end, updated, now) ==
    LET self == [cls |-> "TimeFilter", start |-> Unset, end |-> Unset, updated |-> Unset]
        r1 == TimeSetEnd(self, IF end = PyNone THEN now ELSE end)
        r2 == IF r1.err # "ok" THEN r1
              ELSE TimeSetStart(r1.obj, IF start = PyNone THEN DefaultStart(r1.obj.end)
                                        ELSE start)
    IN IF r2.err # "ok" THEN r2
       ELSE TimeSetUpdated(r2.obj, IF updated = PyNone THEN r2.obj.end ELSE updated)
TimeInit(start, end, updated, now) ==
    LET self == [cls |-> "TimeFilter", start |-> Unset, end |-> Unset, updated |-> Unset]
        r1 == TimeSetEnd(self, IF end = PyNone THEN now ELSE end)
        r2 == IF r1.err # "ok" THEN r1
              ELSE TimeSetStart(r1.obj, IF start = PyNone THEN DefaultStart(r1.obj.end)
                                        ELSE start)
    IN IF r2.err # "ok" THEN r2
       ELSE TimeSetUpdated(r2.obj, IF updated = PyNone THEN r2.obj.start ELSE updated)

----------------------------------------------------------------------------
(* One TimeFilter object: one constructor call, then setter calls on the  *)
(* object it made                                                          *)

\* The days the callers pass: datetime.min, the days around the default gap
\* and a late day.
Days == {0, DEFAULT_DAYS_GAP - 1, DEFAULT_DAYS_GAP, DEFAULT_DAYS_GAP + 1, MaxDay}
\* The values passed as a time: None, a value that is no datetime, naive
\* datetimes and an aware one.
TimeArgs ==
    {PyNone, PyStr} \cup {DateTime(d, "naive") : d \in Days} \cup
    {DateTime(MaxDay, "aware")}
\* The value datetime.utcnow() returns: a naive datetime, long after
\* datetime.min and between the days the callers pass.
NowValues == {DateTime(DEFAULT_DAYS_GAP + 15, "naive")}

NoTimeOp == [op |-> "none", start |-> PyNone, end |-> PyNone, updated |-> PyNone,
             now |-> PyNone, arg |-> PyNone, pre |-> NoTime, outcome |-> "none"]

\* The effect of a TimeFilter setter call: the object changes only when the
\* call succeeds.
TimeAssigned(op, value, res) ==
    /\ tf' = IF res.err = "ok" THEN res.obj ELSE tf
    /\ tlast' = [NoTimeOp EXCEPT !.op = op, !.arg = value, !.pre = tf,
                                 !.outcome = res.err]
    /\ UNCHANGED <<countVars, queryVars, threadVars, refVars, rangeVars, locVars, eqVars, textVars, convVars>>

\* TimeFilter(start, end, updated)
ConstructTime ==
    /\ tf = NoTime /\ tlast = NoTimeOp
    /\ \E start \in TimeArgs, end \in TimeArgs, updated \in TimeArgs, now \in NowValues :
        LET res == TimeInit(start, end, updated, now)
        IN /\ tf' = IF res.err = "ok" THEN res.obj ELSE tf
           /\ tlast' = [op |-> "init", start |-> start, end |-> end,
                        updated |-> updated, now |-> now, arg |-> PyNone,
                        pre |-> tf, outcome |-> res.err]
           /\ UNCHANGED <<countVars, queryVars, threadVars, refVars, rangeVars, locVars, eqVars, textVars, convVars>>

\* time_filter.start = value
SetStart ==
    /\ tf.cls = "TimeFilter"
    /\ \E value \in TimeArgs : TimeAssigned("set_start", value, TimeSetStart(tf, value))

\* time_filter.end = value
SetEnd ==
    /\ tf.cls = "TimeFilter"
    /\ \E value \in TimeArgs : TimeAssigned("set_end", value, TimeSetEnd(tf, value))

\* time_filter.updated = value
SetUpdated ==
    /\ tf.cls = "TimeFilter"
    /\ \E value \in TimeArgs : TimeAssigned("set_updated", value, TimeSetUpdated(tf, value))

NextTime == ConstructTime \/ SetStart \/ SetEnd \/ SetUpdated

----------------------------------------------------------------------------
(* filt.py: RectLocationFilter, CircleLocationFilter,                      *)
(* CircleDistanceLocationFilter                                            *)

MIN_LATITUDE == -90
MAX_LATITUDE == 90
MIN_LONGITUDE == -180
MAX_LONGITUDE == 180
RECT_MIN_LONGITUDE == MIN_LONGITUDE * 2
RECT_MAX_LONGITUDE == MAX_LONGITUDE * 2
MIN_RADIUS == 0
MAX_RADIUS == 180

NoLocation == [cls |-> "none", min_lat |-> Unset, min_long |-> Unset,
               max_lat |-> Unset, max_long |-> Unset,
               lat |-> Unset, long |-> Unset, radius |-> Unset]

\* attribute.replace("min", "max") and attribute.replace("max", "min")
Opposite(attribute) ==
    CASE attribute = "min_lat" -> "max_lat"
      [] attribute = "max_lat" -> "min_lat"
      [] attribute = "min_long" -> "max_long"
      [] attribute = "max_long" -> "min_long"

\* RectLocationFilter._set_position
SetPosition(self, value, attribute, bound, bound_limit) ==
    IF bound = "min"
    THEN IF Lt(value, PyInt(bound_limit)) THEN Err("ValueError")
         ELSE IF Gt(value, GetAttr(self[Opposite(attribute)], PosInf))
              THEN Err("ValueError")
         ELSE Ok([self EXCEPT ![attribute] = value])
    ELSE IF Gt(value, PyInt(bound_limit)) THEN Err("ValueError")
         ELSE IF Lt(value, GetAttr(self[Opposite(attribute)], NegInf))
              THEN Err("ValueError")
         ELSE Ok([self EXCEPT ![attribute] = value])

\* The setters of RectLocationFilter: the type check of
\* _LocationFilter._type_check, then _set_position.
RectSetMinLat(self, value) ==
    IF ~IsNumber(value) THEN Err("TypeError")
    ELSE SetPosition(self, value, "min_lat", "min", MIN_LATITUDE)
RectSetMinLong(self, value) ==
    IF ~IsNumber(value) THEN Err("TypeError")
    ELSE SetPosition(self, value, "min_long", "min", RECT_MIN_LONGITUDE)
RectSetMaxLat(self, value) ==
    IF ~IsNumber(value) THEN Err("TypeError")
    ELSE SetPosition(self, value, "max_lat", "max", MAX_LATITUDE)
RectSetMaxLong(self, value) ==
    IF ~IsNumber(value) THEN Err("TypeError")
    ELSE SetPosition(self, value, "max_long", "max", RECT_MAX_LONGITUDE)

\* RectLocationFilter.__init__: min_lat, min_long, max_lat, max_long in this
\* order, each type-checked and then set.
RectInit(min_lat, min_long, max_lat, max_long) ==
    LET self == [NoLocation EXCEPT !.cls = "RectLocationFilter"]
        r1 == RectSetMinLat(self, min_lat)
        r2 == IF r1.err # "ok" THEN r1 ELSE RectSetMinLong(r1.obj, min_long)
        r3 == IF r2.err # "ok" THEN r2 ELSE RectSetMaxLat(r2.obj, max_lat)
    IN IF r3.err # "ok" THEN r3 ELSE RectSetMaxLong(r3.obj, max_long)

\* _CircleLocationFilter._set_lat
SetLat(self, lat) ==
    IF Lt(lat, PyInt(MIN_LATITUDE)) THEN Err("ValueError")
    ELSE IF Gt(lat, PyInt(MAX_LATITUDE)) THEN Err("ValueError")
    ELSE Ok([self EXCEPT !.lat = lat])

\* _CircleLocationFilter._set_long
SetLong(self, long) ==
    IF Lt(long, PyInt(MIN_LONGITUDE)) THEN Err("ValueError")
    ELSE IF Gt(long, PyInt(MAX_LONGITUDE)) THEN Err("ValueError")
    ELSE Ok([self EXCEPT !.long = long])

\* _CircleLocationFilter.__init__: both type checks, then both setters.
CircleBaseInit(cls, lat, long) ==
    LET self == [NoLocation EXCEPT !.cls = cls]
    IN IF ~IsNumber(lat) \/ ~IsNumber(long) THEN Err("TypeError")
       ELSE LET r1 == SetLat(self, lat)
            IN IF r1.err # "ok" THEN r1 ELSE SetLong(r1.obj, long)

\* CircleLocationFilter._set_radius
SetRadius(self, radius) ==
    IF Lt(radius, PyInt(MIN_RADIUS)) THEN Err("ValueError")
    ELSE IF Gt(radius, PyInt(MAX_RADIUS)) THEN Err("ValueError")
    ELSE Ok([self EXCEPT !.radius = radius])

\* CircleLocationFilter.__init__
CircleInit(lat, long, radius) ==
    LET r0 == CircleBaseInit("CircleLocationFilter", lat, long)
    IN IF r0.err # "ok" THEN r0
       ELSE IF ~IsNumber(radius) THEN Err("TypeError")
       ELSE SetRadius(r0.obj, radius)

\* CircleDistanceLocationFilter._set_radius (km).  The constructor hands it
\* the radius unchecked: comparing a value that is no number with MIN_RADIUS
\* raises TypeError.
SetRadiusKm(self, radius) ==
    IF ~IsNumber(radius) THEN Err("TypeError")
    ELSE IF Lt(radius, PyInt(MIN_RADIUS)) THEN Err("ValueError")
    ELSE Ok([self EXCEPT !.radius = radius])

\* CircleDistanceLocationFilter.__init__.  Multiplying a value that is no
\* number by the float ratio raises TypeError.
CircleDistanceInit_NoConversion(lat, long, radius, radius_unit) ==
    LET r0 == CircleBaseInit("CircleDistanceLocationFilter", lat, long)
    IN IF r0.err # "ok" THEN r0
       ELSE IF radius_unit = NotAString THEN Err("TypeError")
       ELSE IF Strip(radius_unit) = MI THEN SetRadiusKm(r0.obj, radius)
       ELSE IF Strip(radius_unit) # KM THEN Err("ValueError")
       ELSE SetRadiusKm(r0.obj, radius)
CircleDistanceInit(lat, long, radius, radius_unit) ==
    LET r0 == CircleBaseInit("CircleDistanceLocationFilter", lat, long)
    IN IF r0.err # "ok" THEN r0
       ELSE IF radius_unit = NotAString THEN Err("TypeError")
       ELSE IF Strip(radius_unit) = MI
       THEN IF ~IsNumber(radius) THEN Err("TypeError")
            ELSE SetRadiusKm(r0.obj, ConvertUnits(radius, MI, KM, DISTANCE_UNITS))
       ELSE IF Strip(radius_unit) # KM THEN Err("ValueError")
       ELSE SetRadiusKm(r0.obj, radius)

\* The setters of the circle filters: the type check, then the setter.
CircleSetLat(self, value) ==
    IF ~IsNumber(value) THEN Err("TypeError") ELSE SetLat(self, value)
CircleSetLong(self, value) ==
    IF ~IsNumber(value) THEN Err("TypeError") ELSE SetLong(self, value)
\* CircleLocationFilter.radius setter
CircleSetRadius(self, value) ==
    IF ~IsNumber(value) THEN Err("TypeError") ELSE SetRadius(self, value)
\* CircleDistanceLocationFilter.radius_km setter
CircleSetRadiusKm(self, value) ==
    IF ~IsNumber(value) THEN Err("TypeError") ELSE SetRadiusKm(self, value)
\* CircleDistanceLocationFilter.radius_mi setter
CircleSetRadiusMi(self, value) ==
    IF ~IsNumber(value) THEN Err("TypeError")
    ELSE SetRadiusKm(self, ConvertUnits(value, MI, KM, DISTANCE_UNITS))

\* CircleDistanceLocationFilter.radius_km and radius_mi getters
RadiusKm(self) == self.radius
RadiusMi(self) == ConvertUnits(RadiusKm(self), KM, MI, DISTANCE_UNITS)

----------------------------------------------------------------------------
(* One location filter object: one constructor call, then setter calls on *)
(* the object it made                                                      *)

\* The values passed as a latitude: a value that is no number, a NaN, zero
\* and the integers at and just beyond the limits.
LatArgs ==
    {PyStr, NaN, PyInt(0)} \cup
    {PyInt(n) : n \in {MIN_LATITUDE - 1, MIN_LATITUDE, MAX_LATITUDE, MAX_LATITUDE + 1}}
\* The values passed as the longitude of a circle's centre.
LongArgs ==
    {PyStr, NaN, PyInt(0)} \cup
    {PyInt(n) : n \in {MIN_LONGITUDE - 1, MIN_LONGITUDE, MAX_LONGITUDE, MAX_LONGITUDE + 1}}
\* The values passed as a longitude of a rectangle: also the integers just
\* beyond the longitudes of the Earth.
RectLongArgs ==
    {PyStr, NaN, PyInt(0), PyInt(MIN_LONGITUDE - 1), PyInt(MAX_LONGITUDE + 1)} \cup
    {PyInt(n) : n \in {RECT_MIN_LONGITUDE - 1, RECT_MIN_LONGITUDE,
                       RECT_MAX_LONGITUDE, RECT_MAX_LONGITUDE + 1}}
\* The values passed as a radius: a value that is no number, a NaN, an
\* infinity, the largest float, and the integers at and beyond the limits.
RadiusArgs ==
    {PyStr, NaN, PosInf, PyFloat(MaxFloat)} \cup
    {PyInt(n) : n \in {MIN_RADIUS - 1, MIN_RADIUS, MIN_RADIUS + 2, MAX_RADIUS, MAX_RADIUS + 1}}
NoLocationOp == [op |-> "none", cls |-> "none", a1 |-> PyNone, a2 |-> PyNone,
                 a3 |-> PyNone, a4 |-> PyNone, unit |-> "none",
                 pre |-> NoLocation, outcome |-> "none"]

\* The effect of a location filter constructor call.
LocConstructed(cls, a1, a2, a3, a4, u, res) ==
    /\ loc' = IF res.err = "ok" THEN res.obj ELSE loc
    /\ llast' = [op |-> "init", cls |-> cls, a1 |-> a1, a2 |-> a2, a3 |-> a3,
                 a4 |-> a4, unit |-> u, pre |-> loc, outcome |-> res.err]
    /\ UNCHANGED <<countVars, queryVars, threadVars, refVars, rangeVars, timeVars, eqVars, textVars, convVars>>

\* The effect of a location filter setter call: the object changes only when
\* the call succeeds.
LocAssigned(op, value, res) ==
    /\ loc' = IF res.err = "ok" THEN res.obj ELSE loc
    /\ llast' = [NoLocationOp EXCEPT !.op = op, !.cls = loc.cls, !.a1 = value,
                                     !.pre = loc, !.outcome = res.err]
    /\ UNCHANGED <<countVars, queryVars, threadVars, refVars, rangeVars, timeVars, eqVars, textVars, convVars>>

\* RectLocationFilter(min_lat, min_long, max_lat, max_long)
ConstructRect ==
    /\ loc = NoLocation /\ llast = NoLocationOp
    /\ \E a1 \in LatArgs, a2 \in RectLongArgs, a3 \in LatArgs, a4 \in RectLongArgs :
        LocConstructed("RectLocationFilter", a1, a2, a3, a4, "none",
                       RectInit(a1, a2, a3, a4))

\* CircleLocationFilter(lat, long, radius)
ConstructCircle ==
    /\ loc = NoLocation /\ llast = NoLocationOp
    /\ \E a1 \in LatArgs, a2 \in LongArgs, a3 \in RadiusArgs :
        LocConstructed("CircleLocationFilter", a1, a2, a3, PyNone, "none",
                       CircleInit(a1, a2, a3))

\* CircleDistanceLocationFilter(lat, long, radius, radius_unit)
ConstructCircleDistance ==
    /\ loc = NoLocation /\ llast = NoLocationOp
    /\ \E a1 \in LatArgs, a2 \in LongArgs, a3 \in RadiusArgs, u \in UnitArgs :
        LocConstructed("CircleDistanceLocationFilter", a1, a2, a3, PyNone, u,
                       CircleDistanceInit(a1, a2, a3, u))

\* rect_filter.min_lat = value
SetMinLat ==
    /\ loc.cls = "RectLocationFilter"
    /\ \E value \in LatArgs : LocAssigned("min_lat", value, RectSetMinLat(loc, value))

\* rect_filter.min_long = value
SetMinLong ==
    /\ loc.cls = "RectLocationFilter"
    /\ \E value \in RectLongArgs : LocAssigned("min_long", value, RectSetMinLong(loc, value))

\* rect_filter.max_lat = value
SetMaxLat ==
    /\ loc.cls = "RectLocationFilter"
    /\ \E value \in LatArgs : LocAssigned("max_lat", value, RectSetMaxLat(loc, value))

\* rect_filter.max_long = value
SetMaxLong ==
    /\ loc.cls = "RectLocationFilter"
    /\ \E value \in RectLongArgs : LocAssigned("max_long", value, RectSetMaxLong(loc, value))

\* circle_filter.lat = value
SetCircleLat ==
    /\ loc.cls \in {"CircleLocationFilter", "CircleDistanceLocationFilter"}
    /\ \E value \in LatArgs : LocAssigned("lat", value, CircleSetLat(loc, value))

\* circle_filter.long = value
SetCircleLong ==
    /\ loc.cls \in {"CircleLocationFilter", "CircleDistanceLocationFilter"}
    /\ \E value \in LongArgs : LocAssigned("long", value, CircleSetLong(loc, value))

\* circle_filter.radius = value
SetCircleRadius ==
    /\ loc.cls = "CircleLocationFilter"
    /\ \E value \in RadiusArgs : LocAssigned("radius", value, CircleSetRadius(loc, value))

\* circle_filter.radius_km = value
SetCircleRadiusKm ==
    /\ loc.cls = "CircleDistanceLocationFilter"
    /\ \E value \in RadiusArgs : LocAssigned("radius_km", value, CircleSetRadiusKm(loc, value))

\* circle_filter.radius_mi = value
SetCircleRadiusMi ==
    /\ loc.cls = "CircleDistanceLocationFilter"
    /\ \E value \in RadiusArgs : LocAssigned("radius_mi", value, CircleSetRadiusMi(loc, value))

NextLocation ==
    \/ ConstructRect \/ ConstructCircle \/ ConstructCircleDistance
    \/ SetMinLat \/ SetMinLong \/ SetMaxLat \/ SetMaxLong
    \/ SetCircleLat \/ SetCircleLong
    \/ SetCircleRadius \/ SetCircleRadiusKm \/ SetCircleRadiusMi

----------------------------------------------------------------------------
(* filt.py: EarthquakeFilter *)

MIN_REPORTS == 0
GREEN == "green"
YELLOW == "yellow"
ORANGE == "orange"
RED == "red"
PAGER_LEVELS == {GREEN, YELLOW, ORANGE, RED}
\* The pager_level None, where a string or None is expected.
PagerNone == "<None>"
\* The min_reports argument left out of the call: the parameter's default
\* stands in for it.
Omitted == [ty |-> "omitted", k |-> "obj", v |-> 0]
DefaultMinReports(min_reports) == IF min_reports = Omitted THEN PyInt(0) ELSE min_reports

\* An argument given for a sub-filter: its class and, for a filter object, the
\* object.
SubArg(ty, obj) == [ty |-> ty, obj |-> obj]
\* isinstance(location_filter, _LocationFilter): the base class and its
\* subclasses.
IsLocationInstance(ty) ==
    ty \in {"_LocationFilter", "RectLocationFilter", "CircleLocationFilter",
            "CircleDistanceLocationFilter"}
\* The classes the location_filter setter's type check names.
LocationSetterTypes ==
    {"RectLocationFilter", "CircleLocationFilter", "CircleDistanceLocationFilter"}

NoEarthquake ==
    [cls |-> "none", time_filter |-> NoTime, location_filter |-> NoLocation,
     depth_filter |-> NoObject, magnitude_filter |-> NoObject,
     intensity_filter |-> NoObject, pager_level |-> PagerNone,
     min_reports |-> PyInt(0)]

\* The sub-filters EarthquakeFilter.__init__ makes for a None argument.
DefaultTimeFilter(now) == TimeInit(PyNone, PyNone, PyNone, now).obj
DefaultLocationFilter ==
    RectInit(PyInt(MIN_LATITUDE), PyInt(RECT_MIN_LONGITUDE),
             PyInt(MAX_LATITUDE), PyInt(RECT_MAX_LONGITUDE)).obj
DefaultDepthFilter_FromSurface == DepthInit(PyInt(0), PosInf, KM).obj
DefaultDepthFilter == DepthInit(NegInf, PosInf, KM).obj
DefaultMagnitudeFilter == MagnitudeInit(NegInf, PosInf).obj
DefaultIntensityFilter == IntensityInit(PyInt(MIN_INTENSITY), PyInt(MAX_INTENSITY)).obj

\* EarthquakeFilter.__init__: the seven arguments are checked in this order;
\* now is the value of datetime.utcnow() in TimeFilter().
EqInit(time_filter, location_filter, depth_filter, magnitude_filter, intensity_filter, pager_level, min_reports, now) ==
    IF time_filter.ty \notin {"NoneType", "TimeFilter"} THEN Err("TypeError")
    ELSE IF location_filter.ty # "NoneType" /\ ~IsLocationInstance(location_filter.ty)
         THEN Err("TypeError")
    ELSE IF depth_filter.ty \notin {"NoneType", "DepthFilter"} THEN Err("TypeError")
    ELSE IF magnitude_filter.ty \notin {"NoneType", "MagnitudeFilter"} THEN Err("TypeError")
    ELSE IF intensity_filter.ty \notin {"NoneType", "IntensityFilter"} THEN Err("TypeError")
    ELSE IF pager_level = NotAString THEN Err("TypeError")
    ELSE IF pager_level # PagerNone /\ Strip(pager_level) \notin PAGER_LEVELS
         THEN Err("ValueError")
    ELSE IF ~IsInt(DefaultMinReports(min_reports)) THEN Err("TypeError")
    ELSE IF Lt(DefaultMinReports(min_reports), PyInt(MIN_REPORTS)) THEN Err("ValueError")
    ELSE Ok([cls |-> "EarthquakeFilter",
             time_filter |-> IF time_filter.ty = "NoneType"
                             THEN DefaultTimeFilter(now) ELSE time_filter.obj,
             location_filter |-> IF location_filter.ty = "NoneType"
                                 THEN DefaultLocationFilter ELSE location_filter.obj,
             depth_filter |-> IF depth_filter.ty = "NoneType"
                              THEN DefaultDepthFilter ELSE depth_filter.obj,
             magnitude_filter |-> IF magnitude_filter.ty = "NoneType"
                                  THEN DefaultMagnitudeFilter ELSE magnitude_filter.obj,
             intensity_filter |-> IF intensity_filter.ty = "NoneType"
                                  THEN DefaultIntensityFilter ELSE intensity_filter.obj,
             pager_level |-> IF pager_level = PagerNone THEN PagerNone
                             ELSE Strip(pager_level),
             min_reports |-> DefaultMinReports(min_reports)])

\* The setters of EarthquakeFilter: the type check of _method_type_check,
\* then the body.
EqSetTimeFilter(self, value) ==
    IF value.ty # "TimeFilter" THEN Err("TypeError")
    ELSE Ok([self EXCEPT !.time_filter = value.obj])
EqSetLocationFilter(self, value) ==
    IF value.ty \notin LocationSetterTypes THEN Err("TypeError")
    ELSE Ok([self EXCEPT !.location_filter = value.obj])
EqSetDepthFilter_Merge(self, value) ==
    IF value.ty # "DepthFilter" THEN Err("TypeError")
    ELSE Ok([self EXCEPT !.depth_filter = [value.obj EXCEPT !.max = self.depth_filter.max]])
EqSetDepthFilter(self, value) ==
    IF value.ty # "DepthFilter" THEN Err("TypeError")
    ELSE Ok([self EXCEPT !.depth_filter = value.obj])
EqSetMagnitudeFilter(self, value) ==
    IF value.ty # "MagnitudeFilter" THEN Err("TypeError")
    ELSE Ok([self EXCEPT !.magnitude_filter = value.obj])
EqSetIntensityFilter(self, value) ==
    IF value.ty # "IntensityFilter" THEN Err("TypeError")
    ELSE Ok([self EXCEPT !.intensity_filter = value.obj])
EqSetPagerLevel_NoStrip(self, pager_level) ==
    IF pager_level = NotAString THEN Err("TypeError")
    ELSE IF pager_level = PagerNone THEN Ok([self EXCEPT !.pager_level = PagerNone])
    ELSE IF Strip(pager_level) \notin PAGER_LEVELS THEN Err("ValueError")
    ELSE Ok([self EXCEPT !.pager_level = pager_level])
EqSetPagerLevel(self, pager_level) ==
    IF pager_level = NotAString THEN Err("TypeError")
    ELSE IF pager_level = PagerNone THEN Ok([self EXCEPT !.pager_level = PagerNone])
    ELSE IF Strip(pager_level) \notin PAGER_LEVELS THEN Err("ValueError")
    ELSE Ok([self EXCEPT !.pager_level = Strip(pager_level)])
EqSetMinReports(self, min_reports) ==
    IF ~IsInt(min_reports) THEN Err("TypeError")
    ELSE IF Lt(min_reports, PyInt(MIN_REPORTS)) THEN Err("ValueError")
    ELSE Ok([self EXCEPT !.min_reports = min_reports])

----------------------------------------------------------------------------
(* One EarthquakeFilter object: one constructor call, then setter calls on *)
(* the object it made                                                      *)

\* The values passed as a sub-filter: None, an object of another class, and
\* filter objects as their constructors make them.
TimeFilterArgs ==
    {SubArg("NoneType", NoTime), SubArg("str", NoTime),
     SubArg("TimeFilter",
            TimeInit(DateTime(0, "naive"), DateTime(MaxDay, "naive"),
                     DateTime(MaxDay, "naive"), DateTime(MaxDay, "naive")).obj)}
LocationFilterArgs ==
    {SubArg("NoneType", NoLocation), SubArg("module", NoLocation),
     SubArg("_LocationFilter", [NoLocation EXCEPT !.cls = "_LocationFilter"]),
     SubArg("RectLocationFilter",
            RectInit(PyInt(0), PyInt(MIN_LONGITUDE - 1), PyInt(MAX_LATITUDE), PyInt(0)).obj),
     SubArg("CircleLocationFilter", CircleInit(PyInt(0), PyInt(0), PyInt(MAX_RADIUS)).obj),
     SubArg("CircleDistanceLocationFilter",
            CircleDistanceInit(PyInt(0), PyInt(0), PyInt(MIN_RADIUS + 2), MI).obj)}
DepthFilterArgs ==
    {SubArg("NoneType", NoObject), SubArg("_LocationFilter", NoObject),
     SubArg("DepthFilter", DepthInit(PyInt(0), PyInt(MaxSmall), KM).obj)}
MagnitudeFilterArgs ==
    {SubArg("NoneType", NoObject), SubArg("float", NoObject),
     SubArg("MagnitudeFilter", MagnitudeInit(PyInt(1), PosInf).obj)}
IntensityFilterArgs ==
    {SubArg("NoneType", NoObject), SubArg("type", NoObject),
     SubArg("IntensityFilter", IntensityInit(PyInt(1), PyInt(MAX_INTENSITY - 1)).obj)}
\* The values passed as a PAGER level and as a number of reports.
PagerArgs == {PagerNone, NotAString, GREEN, YELLOW, ORANGE, " red ", "Green"}
ReportArgs == {PyFloat(1), PyInt(-1), PyInt(0), PyInt(MaxSmall)}

NoEarthquakeOp ==
    [op |-> "none", time_filter |-> SubArg("NoneType", NoTime),
     location_filter |-> SubArg("NoneType", NoLocation),
     depth_filter |-> SubArg("NoneType", NoObject),
     magnitude_filter |-> SubArg("NoneType", NoObject),
     intensity_filter |-> SubArg("NoneType", NoObject),
     pager_level |-> PagerNone, min_reports |-> PyInt(0), now |-> PyNone,
     pre |-> NoEarthquake, outcome |-> "none"]

\* The effect of an EarthquakeFilter setter call: the object changes only
\* when the call succeeds.
EqAssigned(op, called, res) ==
    /\ ef' = IF res.err = "ok" THEN res.obj ELSE ef
    /\ elast' = [called EXCEPT !.op = op, !.pre = ef, !.outcome = res.err]
    /\ UNCHANGED <<countVars, queryVars, threadVars, refVars, rangeVars, timeVars, locVars, textVars, convVars>>

\* EarthquakeFilter(time_filter, location_filter, depth_filter,
\*                  magnitude_filter, intensity_filter, pager_level, min_reports)
ConstructEarthquake ==
    /\ ef = NoEarthquake /\ elast = NoEarthquakeOp
    /\ \E t \in TimeFilterArgs, l \in LocationFilterArgs, d \in DepthFilterArgs,
          m \in MagnitudeFilterArgs, n \in IntensityFilterArgs,
          p \in PagerArgs, r \in ReportArgs \cup {Omitted}, now \in NowValues :
        LET res == EqInit(t, l, d, m, n, p, r, now)
        IN /\ ef' = IF res.err = "ok" THEN res.obj ELSE ef
           /\ elast' = [op |-> "init", time_filter |-> t, location_filter |-> l,
                        depth_filter |-> d, magnitude_filter |-> m,
                        intensity_filter |-> n, pager_level |-> p,
                        min_reports |-> r, now |-> now, pre |-> ef,
                        outcome |-> res.err]
           /\ UNCHANGED <<countVars, queryVars, threadVars, refVars, rangeVars, timeVars, locVars, textVars, convVars>>

\* earthquake_filter.time_filter = value
AssignTimeFilter ==
    /\ ef.cls = "EarthquakeFilter"
    /\ \E value \in TimeFilterArgs :
        EqAssigned("time_filter", [NoEarthquakeOp EXCEPT !.time_filter = value],
                   EqSetTimeFilter(ef, value))

\* earthquake_filter.location_filter = value
AssignLocationFilter ==
    /\ ef.cls = "EarthquakeFilter"
    /\ \E value \in LocationFilterArgs :
        EqAssigned("location_filter", [NoEarthquakeOp EXCEPT !.location_filter = value],
                   EqSetLocationFilter(ef, value))

\* earthquake_filter.depth_filter = value
AssignDepthFilter ==
    /\ ef.cls = "EarthquakeFilter"
    /\ \E value \in DepthFilterArgs :
        EqAssigned("depth_filter", [NoEarthquakeOp EXCEPT !.depth_filter = value],
                   EqSetDepthFilter(ef, value))

\* earthquake_filter.magnitude_filter = value
AssignMagnitudeFilter ==
    /\ ef.cls = "EarthquakeFilter"
    /\ \E value \in MagnitudeFilterArgs :
        EqAssigned("magnitude_filter", [NoEarthquakeOp EXCEPT !.magnitude_filter = value],
                   EqSetMagnitudeFilter(ef, value))

\* earthquake_filter.intensity_filter = value
AssignIntensityFilter ==
    /\ ef.cls = "EarthquakeFilter"
    /\ \E value \in IntensityFilterArgs :
        EqAssigned("intensity_filter", [NoEarthquakeOp EXCEPT !.intensity_filter = value],
                   EqSetIntensityFilter(ef, value))

\* earthquake_filter.pager_level = value
AssignPagerLevel ==
    /\ ef.cls = "EarthquakeFilter"
    /\ \E value \in PagerArgs :
        EqAssigned("pager_level", [NoEarthquakeOp EXCEPT !.pager_level = value],
                   EqSetPagerLevel(ef, value))

\* earthquake_filter.min_reports = value
AssignMinReports ==
    /\ ef.cls = "EarthquakeFilter"
    /\ \E value \in ReportArgs :
        EqAssigned("min_reports", [NoEarthquakeOp EXCEPT !.min_reports = value],
                   EqSetMinReports(ef, value))

NextEarthquake ==
    \/ ConstructEarthquake
    \/ AssignTimeFilter \/ AssignLocationFilter \/ AssignDepthFilter
    \/ AssignMagnitudeFilter \/ AssignIntensityFilter
    \/ AssignPagerLevel \/ AssignMinReports


----------------------------------------------------------------------------
(* The query serializer of _requests.py *)

\* Realistic minima/maxima to feed to the API.
MIN_DEPTH_KM == -100
MAX_DEPTH_KM == 9999
MIN_MAGNTIUDE == -5
MAX_MAGNITUDE == 12
MAX_RADIUS_KM == 99999
MAX_REPORTS == 999999999

\* max(a, b) and min(a, b) of Python: the first argument, unless the second
\* compares greater (less); a NaN first argument is returned as it is.
PyMax(a, b) == IF Gt(b, a) THEN b ELSE a
PyMin(a, b) == IF Lt(b, a) THEN b ELSE a

\* A str value, and datetime.isoformat(): the text of the date, with the
\* UTC offset when the datetime is aware.
Text(s) == [ty |-> "str", k |-> s, v |-> 0]
IsoFormat(d) == [ty |-> "str", k |-> "iso-" \o d.k, v |-> d.v]

\* The keys of the params dict, and the value of a key the dict lacks.
ParamNames ==
    {"format", "starttime", "endtime", "updatedafter",
     "minlatitude", "minlongitude", "maxlatitude", "maxlongitude",
     "latitude", "longitude", "radius", "radiuskm",
     "mindepth", "maxdepth", "minmag", "maxmag", "minmmi", "maxmmi",
     "alertlevel", "minfelt", "limit"}
Absent == [ty |-> "absent", k |-> "obj", v |-> 0]
NoParams == [name \in ParamNames |-> Absent]

\* The location parameters: lines 37-49.
LocationParams_NoCeiling(location_filter) ==
    IF location_filter.cls = "RectLocationFilter"
    THEN [NoParams EXCEPT !["minlatitude"] = location_filter.min_lat,
                          !["minlongitude"] = location_filter.min_long,
                          !["maxlatitude"] = location_filter.max_lat,
                          !["maxlongitude"] = location_filter.max_long]
    ELSE IF location_filter.cls = "CircleLocationFilter"
    THEN [NoParams EXCEPT !["latitude"] = location_filter.lat,
                          !["longitude"] = location_filter.long,
                          !["radius"] = location_filter.radius]
    ELSE [NoParams EXCEPT !["latitude"] = location_filter.lat,
                          !["longitude"] = location_filter.long,
                          !["radiuskm"] = location_filter.radius]
LocationParams(location_filter) ==
    IF location_filter.cls = "RectLocationFilter"
    THEN [NoParams EXCEPT !["minlatitude"] = location_filter.min_lat,
                          !["minlongitude"] = location_filter.min_long,
                          !["maxlatitude"] = location_filter.max_lat,
                          !["maxlongitude"] = location_filter.max_long]
    ELSE IF location_filter.cls = "CircleLocationFilter"
    THEN [NoParams EXCEPT !["latitude"] = location_filter.lat,
                          !["longitude"] = location_filter.long,
                          !["radius"] = location_filter.radius]
    ELSE [NoParams EXCEPT !["latitude"] = location_filter.lat,
                          !["longitude"] = location_filter.long,
                          !["radiuskm"] = PyMin(location_filter.radius, PyInt(MAX_RADIUS_KM))]

\* if condition: params[key] = value
OptionalParam_Always(condition, value) == value
OptionalParam(condition, value) == IF condition THEN value ELSE Absent

\* _get_query_string(_filt, limit): the params dict the query string is
\* joined from, or the exception raised on the way.  An object of the base
\* class _LocationFilter has none of the attributes read at lines 43-49.
GetQueryString(filt, limit) ==
    IF filt.location_filter.cls = "_LocationFilter"
    THEN [err |-> "AttributeError", params |-> NoParams]
    ELSE [err |-> "ok",
          params |->
            [name \in ParamNames |->
                CASE name = "format" -> Text("geojson")
                  [] name = "starttime" -> IsoFormat(filt.time_filter.start)
                  [] name = "endtime" -> IsoFormat(filt.time_filter.end)
                  [] name = "updatedafter" -> IsoFormat(filt.time_filter.updated)
                  [] name = "mindepth" ->
                        OptionalParam(~NumEq(filt.depth_filter.min, NegInf),
                                      PyMax(filt.depth_filter.min, PyInt(MIN_DEPTH_KM)))
                  [] name = "maxdepth" ->
                        OptionalParam(~NumEq(filt.depth_filter.max, PosInf),
                                      PyMin(filt.depth_filter.max, PyInt(MAX_DEPTH_KM)))
                  [] name = "minmag" ->
                        OptionalParam(~NumEq(filt.magnitude_filter.min, NegInf),
                                      PyMax(filt.magnitude_filter.min, PyInt(MIN_MAGNTIUDE)))
                  [] name = "maxmag" ->
                        OptionalParam(~NumEq(filt.magnitude_filter.max, PosInf),
                                      PyMin(filt.magnitude_filter.max, PyInt(MAX_MAGNITUDE)))
                  [] name = "minmmi" ->
                        OptionalParam(~NumEq(filt.intensity_filter.min, PyInt(MIN_INTENSITY)),
                                      filt.intensity_filter.min)
                  [] name = "maxmmi" ->
                        OptionalParam(~NumEq(filt.intensity_filter.max, PyInt(MAX_INTENSITY)),
                                      filt.intensity_filter.max)
                  [] name = "alertlevel" ->
                        OptionalParam(filt.pager_level # PagerNone, Text(filt.pager_level))
                  [] name = "minfelt" ->
                        OptionalParam(~NumEq(filt.min_reports, PyInt(0)), filt.min_reports)
                  [] name = "limit" -> OptionalParam(limit # PyNone, limit)
                  [] OTHER -> LocationParams(filt.location_filter)[name]]]

----------------------------------------------------------------------------
(* One EarthquakeFilter, constructed, assigned to once at most, and        *)
(* serialized                                                              *)

\* The sub-filters, the PAGER level and the number of reports of the filters
\* that are serialized: beyond the service's extremes, infinite, NaN.
QueryArgs ==
    [location_filter |->
        {SubArg("_LocationFilter", [NoLocation EXCEPT !.cls = "_LocationFilter"]),
         SubArg("CircleDistanceLocationFilter",
                CircleDistanceInit(PyInt(MAX_LATITUDE), PyInt(MAX_LONGITUDE),
                                   PyInt(MAX_RADIUS_KM + 1), KM).obj),
         SubArg("CircleDistanceLocationFilter",
                CircleDistanceInit(PyInt(0), PyInt(0), NaN, KM).obj)},
     depth_filter |->
        {SubArg("DepthFilter", DepthInit(PyInt(MAX_DEPTH_KM + 1), PyInt(10000000), KM).obj),
         SubArg("DepthFilter", DepthInit(PyInt(MIN_DEPTH_KM - 1), PyInt(MIN_DEPTH_KM - 1), KM).obj),
         SubArg("DepthFilter", DepthInit(PosInf, PosInf, KM).obj),
         SubArg("DepthFilter", DepthInit(NaN, NaN, KM).obj)},
     magnitude_filter |->
        {SubArg("MagnitudeFilter", MagnitudeInit(PyInt(50), PyInt(500)).obj),
         SubArg("MagnitudeFilter",
                MagnitudeInit(PyInt(MIN_MAGNTIUDE - 1), PyInt(MIN_MAGNTIUDE - 1)).obj),
         SubArg("MagnitudeFilter", MagnitudeInit(NegInf, NegInf).obj),
         SubArg("MagnitudeFilter", MagnitudeInit(NaN, NaN).obj)},
     intensity_filter |->
        {SubArg("IntensityFilter",
                IntensityInit(PyFloat(MIN_INTENSITY), PyFloat(MAX_INTENSITY)).obj),
         SubArg("IntensityFilter", IntensityInit(PyInt(6), PyInt(6)).obj)},
     min_reports |-> {PyInt(10), PyInt(MAX_REPORTS + 1)}]

\* The constructor calls: EarthquakeFilter(), the calls that give one
\* argument, and one call that gives them all.
DefaultCall == [NoEarthquakeOp EXCEPT !.min_reports = Omitted]
QueryCalls ==
    {DefaultCall}
    \cup {[DefaultCall EXCEPT !.location_filter = l] : l \in QueryArgs.location_filter}
    \cup {[DefaultCall EXCEPT !.depth_filter = d] : d \in QueryArgs.depth_filter}
    \cup {[DefaultCall EXCEPT !.magnitude_filter = m] : m \in QueryArgs.magnitude_filter}
    \cup {[DefaultCall EXCEPT !.intensity_filter = n] : n \in QueryArgs.intensity_filter}
    \cup {[DefaultCall EXCEPT !.min_reports = r] : r \in QueryArgs.min_reports}
    \cup {[DefaultCall EXCEPT
              !.location_filter = CHOOSE l \in QueryArgs.location_filter :
                                     l.obj.radius = PyInt(MAX_RADIUS_KM + 1),
              !.depth_filter = CHOOSE d \in QueryArgs.depth_filter :
                                  d.obj.min = PyInt(MAX_DEPTH_KM + 1),
              !.magnitude_filter = CHOOSE m \in QueryArgs.magnitude_filter :
                                      m.obj.min = PyInt(50),
              !.intensity_filter = CHOOSE n \in QueryArgs.intensity_filter :
                                      n.obj.min = PyInt(6),
              !.pager_level = RED, !.min_reports = PyInt(MAX_REPORTS + 1)]}
\* The limit: None, and numbers up to and beyond the largest page.
LimitArgs == {PyNone, PyInt(1), PyInt(20000), PyInt(20001)}

NoQuery == [op |-> "none", filt |-> NoEarthquake, limit |-> PyNone,
            err |-> "none", params |-> NoParams]

\* The EarthquakeFilter constructor call whose object is serialized.
ConstructForQuery ==
    /\ ef = NoEarthquake /\ elast = NoEarthquakeOp
    /\ \E c \in QueryCalls, now \in NowValues :
        LET res == EqInit(c.time_filter, c.location_filter, c.depth_filter,
                          c.magnitude_filter, c.intensity_filter, c.pager_level,
                          c.min_reports, now)
        IN /\ ef' = IF res.err = "ok" THEN res.obj ELSE ef
           /\ elast' = [c EXCEPT !.op = "init", !.now = now, !.pre = ef,
                                 !.outcome = res.err]
           /\ UNCHANGED <<countVars, queryVars, threadVars, refVars, rangeVars, timeVars, locVars, textVars, convVars>>

\* _get_query_string(earthquake_filter, limit)
Serialize ==
    /\ ef.cls = "EarthquakeFilter"
    /\ \E limit \in LimitArgs :
        LET res == GetQueryString(ef, limit)
        IN query' = [op |-> "serialize", filt |-> ef, limit |-> limit,
                     err |-> res.err, params |-> res.params]
    /\ UNCHANGED <<countVars, threadVars, filterVars, refVars, textVars, convVars>>

\* One assignment at most comes between the construction and the
\* serialization.
NextQuery ==
    \/ ConstructForQuery
    \/ Serialize
    \/ elast.op = "init" /\ AssignTimeFilter
    \/ elast.op = "init" /\ AssignLocationFilter
    \/ elast.op = "init" /\ AssignDepthFilter
    \/ elast.op = "init" /\ AssignMagnitudeFilter
    \/ elast.op = "init" /\ AssignIntensityFilter
    \/ elast.op = "init" /\ AssignPagerLevel
    \/ elast.op = "init" /\ AssignMinReports


----------------------------------------------------------------------------
(* The requests of one count() call on a filter *)

\* _requests.py:90, query_string = _get_query_string(_filt): the limit is
\* left to its default, None.
CountQuery_Capped(filt) == GetQueryString(filt, PyInt(20000))
CountQuery(filt) == GetQueryString(filt, PyNone)

\* _count(earthquake_filter, timeout) as count() calls it, once per attempt
\* and no more after an attempt that returned or after MAX_RETRY_COUNT + 1
\* attempts: the filter is serialized, the request is sent when the
\* serialization returned, and the service answers with a count, a non-2xx
\* status or not in time.
CountRequest ==
    /\ ef.cls = "EarthquakeFilter"
    /\ calls <= MAX_RETRY_COUNT
    /\ IF log = <<>> THEN TRUE ELSE log[Len(log)].kind = "raise"
    /\ LET res == CountQuery(ef)
       IN /\ query' = [op |-> "count", filt |-> ef, limit |-> PyNone,
                        err |-> res.err, params |-> res.params]
          /\ \E raw \in IF res.err # "ok"
                         THEN {Raise(res.err, "filter", Len(log) + 1)}
                         ELSE {o \in RawOutcomes(Len(log) + 1) :
                                 o.cls \in {"int", "urllib.HTTPError", "TimeoutError"}} :
                log' = Append(log, HandleErrors(raw))
    /\ calls' = calls + 1
    /\ UNCHANGED <<pc, args, retry_count, i, result, threadVars, filterVars, refVars, textVars, convVars>>

\* The filter is made, may be assigned to once, also between two attempts,
\* and is requested.
NextRequest ==
    \/ ConstructForQuery
    \/ CountRequest
    \/ elast.op = "init" /\ AssignMinReports
    \/ elast.op = "init" /\ AssignLocationFilter

----------------------------------------------------------------------------
(* An EarthquakeFilter given a DepthFilter the caller keeps a reference to  *)

\* EarthquakeFilter(depth_filter=d) and earthquake_filter.depth_filter = d
\* for the caller's DepthFilter d: "self._depth_filter = depth_filter" stores
\* the reference, so the field and d are one object from then on.
ShareDepthFilter ==
    /\ rf.cls = "DepthFilter"
    /\ ref = "none"
    /\ \E now \in NowValues :
        LET given == SubArg("DepthFilter", rf)
            res == IF ef = NoEarthquake
                   THEN EqInit(DefaultCall.time_filter, DefaultCall.location_filter, given,
                               DefaultCall.magnitude_filter, DefaultCall.intensity_filter,
                               DefaultCall.pager_level, DefaultCall.min_reports, now)
                   ELSE EqSetDepthFilter(ef, given)
        IN /\ ef' = res.obj
           /\ elast' = [DefaultCall EXCEPT
                            !.op = IF ef = NoEarthquake THEN "init" ELSE "depth_filter",
                            !.depth_filter = given, !.pre = ef, !.outcome = res.err,
                            !.now = IF ef = NoEarthquake THEN now ELSE PyNone]
    /\ ref' = "depth_filter"
    /\ UNCHANGED <<countVars, queryVars, threadVars, rangeVars, timeVars, locVars, textVars, convVars>>

\* EarthquakeFilter() before the caller's filter is assigned to it.
ConstructDefault ==
    /\ ef = NoEarthquake
    /\ \E now \in NowValues :
        LET res == EqInit(DefaultCall.time_filter, DefaultCall.location_filter,
                          DefaultCall.depth_filter, DefaultCall.magnitude_filter,
                          DefaultCall.intensity_filter, DefaultCall.pager_level,
                          DefaultCall.min_reports, now)
        IN /\ ef' = res.obj
           /\ elast' = [DefaultCall EXCEPT !.op = "init", !.now = now, !.pre = ef,
                                           !.outcome = res.err]
    /\ UNCHANGED <<countVars, queryVars, threadVars, refVars, rangeVars, timeVars, locVars, textVars, convVars>>

\* d.min_km = value and d.max_km = value by the caller, on its own reference:
\* the object the field of the EarthquakeFilter refers to is the one changed.
CallerSets ==
    /\ rf.cls = "DepthFilter"
    /\ \E op \in {"set_min", "set_max"}, value \in {PyStr, PyInt(0), PyInt(1)} :
        LET res == IF op = "set_min" THEN PropSetMin(rf, value) ELSE PropSetMax(rf, value)
            d == IF res.err = "ok" THEN res.obj ELSE rf
        IN /\ rf' = d
           /\ last' = [op |-> op, cls |-> rf.cls, arg |-> value, arg2 |-> PyNone,
                        unit |-> KM, pre |-> rf, outcome |-> res.err]
           /\ ef' = IF ref = "depth_filter" THEN [ef EXCEPT !.depth_filter = d] ELSE ef
    /\ UNCHANGED <<countVars, queryVars, threadVars, refVars, timeVars, locVars, elast, textVars, convVars>>

NextOwnership == ConstructDepth \/ ConstructDefault \/ ShareDepthFilter \/ CallerSets

----------------------------------------------------------------------------
(* Specifications *)

\* Before count() is called and before a filter is constructed.
Init ==
    /\ pc = "idle"
    /\ args = NoArgs
    /\ retry_count = 0
    /\ i = 0
    /\ calls = 0
    /\ log = <<>>
    /\ result = NoError
    /\ rf = NoObject
    /\ last = NoOp
    /\ tf = NoTime
    /\ tlast = NoTimeOp
    /\ loc = NoLocation
    /\ llast = NoLocationOp
    /\ ef = NoEarthquake
    /\ elast = NoEarthquakeOp
    /\ query = NoQuery
    /\ th = [t \in Threads |-> NoThread]
    /\ ref = "none"
    /\ text = NoText
    /\ conv = NoConvert

SpecCount == Init /\ [][NextCount]_vars

\* count() runs on the caller's thread and every attempt terminates: the next
\* step of the call is always taken.
FairSpecCount == Init /\ [][NextCount]_vars /\ WF_vars(NextCount)

SpecRange == Init /\ [][NextRange]_vars

SpecTime == Init /\ [][NextTime]_vars

SpecLocation == Init /\ [][NextLocation]_vars

SpecEarthquake == Init /\ [][NextEarthquake]_vars

SpecQuery == Init /\ [][NextQuery]_vars

SpecThreads == Init /\ [][NextThreads]_vars

SpecOwnership == Init /\ [][NextOwnership]_vars

SpecRequest == Init /\ [][NextRequest]_vars

SpecRender == Init /\ [][NextRender]_vars

SpecConvert == Init /\ [][NextConvert]_vars

----------------------------------------------------------------------------
(* Claims about count() *)

Done == pc \in {"returned", "raised"}
Validated == pc # "idle" /\ ValidateArgs(args) = NoError
\* The retry budget N the caller asked for (the cap when it asked for None).
Budget == IF args.retry_count = PyNone THEN MAX_RETRY_COUNT ELSE args.retry_count.v

\* C1: count() returns the count of the first successful attempt, which is the
\* last attempt it issues: when attempts 1..N fail and attempt N+1 succeeds the
\* count of attempt N+1 is returned, and no attempt follows a success.
C1_FirstSuccessReturned ==
    /\ pc = "returned" =>
          /\ Len(log) >= 1
          /\ log[Len(log)].kind = "return"
          /\ result = log[Len(log)]
          /\ result.attempt = Len(log)
    /\ \A k \in 1..(Len(log) - 1) : log[k].kind = "raise"
    /\ pc \in {"loop", "raised"} => \A k \in 1..Len(log) : log[k].kind = "raise"

C1_Witness ==
    /\ pc = "returned"
    /\ args.retry_count = PyInt(2)
    /\ Len(log) = 3
    /\ log[1].cls = "equake.HTTPError"
    /\ log[2].cls = "TimeoutError"
    /\ result.value = 7

\* C2: when every attempt the budget allows has failed, count() raises, and the
\* error it raises is the error of the final attempt as _count raised it: not
\* the error of an earlier attempt and not an error made up by count().
C2_FinalErrorObserved ==
    (Done /\ Validated /\ Len(log) = retry_count + 1
          /\ \A k \in 1..Len(log) : log[k].kind = "raise") =>
        /\ pc = "raised"
        /\ result = log[Len(log)]
        /\ result.attempt = retry_count + 1
        /\ result \in {HandleErrors(raw) : raw \in RawOutcomes(retry_count + 1)}

C2_Witness ==
    /\ pc = "raised"
    /\ args.retry_count = PyInt(2)
    /\ Len(log) = 3
    /\ log[1].cls = "equake.RequestError"
    /\ log[2].cls = "TimeoutError"
    /\ result.cls = "equake.HTTPError"

\* C3: a count() call whose arguments are valid issues at least one and at most
\* N+1 attempts, each attempt one urlopen call; with N = 0 it issues exactly one
\* attempt and the failure of that attempt is raised to the caller.
C3_AttemptCount ==
    /\ calls = Len(log)
    /\ Len(log) <= Budget + 1
    /\ (Done /\ Validated) => Len(log) >= 1
    /\ (Done /\ Validated /\ Budget = 0) =>
          /\ Len(log) = 1
          /\ log[1].kind = "raise" => (pc = "raised" /\ result = log[1])

C3_Witness ==
    /\ Done
    /\ args.retry_count = PyInt(2)
    /\ Len(log) = 3
    /\ calls = 3

\* C4: the only failures a non-final attempt suppresses are transport errors
\* (HTTP error, request error, timeout): a failure of any other kind, such as a
\* response body that cannot be decoded or has no count field, is raised to
\* the caller at once and no further attempt is made.
C4_OnlyTransportSuppressed ==
    \A k \in 1..Len(log) :
        (log[k].kind = "raise" /\ log[k].cause = "body") =>
            (pc = "raised" /\ result = log[k] /\ Len(log) = k)

\* C5: every failed attempt is classified before count() sees it: a non-2xx
\* response as the HTTP error, a connection failure as the request error, an
\* exceeded timeout as the timeout error, in whichever phase it strikes.
C5_Classified ==
    \A k \in 1..Len(log) :
        log[k].kind = "raise" =>
            /\ log[k].cause = "non2xx" => log[k].cls = "equake.HTTPError"
            /\ log[k].cause = "connection" => log[k].cls = "equake.RequestError"
            /\ log[k].cause = "timeout" => log[k].cls = "TimeoutError"

InvalidArgs(a) ==
    \/ a.earthquake_filter.ty # "EarthquakeFilter"
    \/ ~(a.timeout = PyNone \/ IsNumber(a.timeout))
    \/ ~(a.retry_count = PyNone \/ IsInt(a.retry_count))
    \/ IsNumber(a.timeout) /\ ~(Le(PyInt(MIN_TIMEOUT), a.timeout) /\ Le(a.timeout, PyInt(MAX_TIMEOUT)))
    \/ IsInt(a.retry_count) /\ a.retry_count.v < 0

\* C7: an argument of the wrong kind, a numeric timeout outside [0.01, 86400] or
\* a retry_count below zero makes count() raise a type or value error before
\* any attempt is issued.
C7_InvalidArgsRejected ==
    (pc # "idle" /\ InvalidArgs(args)) =>
        /\ pc = "raised"
        /\ result.cls \in {"TypeError", "ValueError"}
        /\ Len(log) = 0
        /\ calls = 0

----------------------------------------------------------------------------
(* Claims about the range filters *)

\* x lies within the domain bounds of the filter o.
InDomain(o, x) == Le(o.amin, x) /\ Le(x, o.amax)
\* The value the last call asked to store: the argument, in kilometres.
StoredArg(x, u) == IF u = MI THEN ConvertUnits(x, MI, KM, DISTANCE_UNITS) ELSE x
\* The domain bounds of a class, as an object without endpoints.
DomainOf(cls) ==
    [cls |-> cls, min |-> Unset, max |-> Unset,
     amin |-> IF cls = "IntensityFilter" THEN PyInt(MIN_INTENSITY) ELSE NegInf,
     amax |-> IF cls = "IntensityFilter" THEN PyInt(MAX_INTENSITY) ELSE PosInf]

\* C8: in every reachable state of a range filter min <= max and both
\* endpoints lie within the domain bounds of the filter.
C8_RangeInvariant ==
    rf.cls # "none" =>
        /\ Le(rf.min, rf.max)
        /\ InDomain(rf, rf.min)
        /\ InDomain(rf, rf.max)

\* C9: a construction or an endpoint mutation whose value would make min > max
\* or lies outside the domain bounds fails with a value error, and a failed
\* call leaves both endpoints as they were.
C9_RejectedAndUnchanged ==
    LET w == StoredArg(last.arg, last.unit)
        w2 == StoredArg(last.arg2, last.unit)
        d == DomainOf(last.cls)
    IN /\ (last.op = "set_min" /\ IsNumber(last.arg)
              /\ (~InDomain(last.pre, w) \/ Gt(w, last.pre.max)))
            => last.outcome = "ValueError"
       /\ (last.op = "set_max" /\ IsNumber(last.arg)
              /\ (~InDomain(last.pre, w) \/ Lt(w, last.pre.min)))
            => last.outcome = "ValueError"
       /\ (last.op = "init" /\ IsNumber(last.arg) /\ IsNumber(last.arg2)
              /\ (~InDomain(d, w) \/ ~InDomain(d, w2) \/ Gt(w, w2)))
            => last.outcome = "ValueError"
       /\ last.outcome \notin {"ok", "none"} => rf = last.pre

\* C10: setting min to v succeeds iff domain_min <= v <= current max, setting
\* max to v succeeds iff current min <= v <= domain_max; on success the
\* endpoint reads back as v and the other endpoint is unchanged; a valid
\* (min, max) passed to the constructor reads back unchanged.
C10_SetterAcceptance ==
    LET w == StoredArg(last.arg, last.unit)
        d == DomainOf(last.cls)
    IN /\ (last.op = "set_min" /\ IsNumber(last.arg)) =>
            /\ last.outcome = "ok" <=> (Le(last.pre.amin, w) /\ Le(w, last.pre.max))
            /\ last.outcome = "ok" => (rf.min = w /\ rf.max = last.pre.max)
       /\ (last.op = "set_max" /\ IsNumber(last.arg)) =>
            /\ last.outcome = "ok" <=> (Le(last.pre.min, w) /\ Le(w, last.pre.amax))
            /\ last.outcome = "ok" => (rf.max = w /\ rf.min = last.pre.min)
       /\ (last.op = "init" /\ IsNumber(last.arg) /\ IsNumber(last.arg2)
              /\ Strip(last.unit) = KM
              /\ InDomain(d, last.arg) /\ InDomain(d, last.arg2)
              /\ Le(last.arg, last.arg2)) =>
            /\ last.outcome = "ok"
            /\ rf.min = last.arg
            /\ rf.max = last.arg2

----------------------------------------------------------------------------
(* Claims about TimeFilter *)

\* C11: a successful TimeFilter construction resolves end, then start, then
\* updated: an omitted end is the current time, an omitted start is the end
\* minus 30 days when that day is not before datetime.min and the end itself
\* otherwise, an omitted updated is the resolved start, and a supplied value
\* reads back as it was given.
C11_DefaultsResolved ==
    (tlast.op = "init" /\ tlast.outcome = "ok") =>
        LET end == IF tlast.end = PyNone THEN tlast.now ELSE tlast.end
            start == IF tlast.start # PyNone THEN tlast.start
                     ELSE IF end.v >= DEFAULT_DAYS_GAP
                          THEN [end EXCEPT !.v = end.v - DEFAULT_DAYS_GAP]
                          ELSE end
            updated == IF tlast.updated = PyNone THEN start ELSE tlast.updated
        IN tf.end = end /\ tf.start = start /\ tf.updated = updated

\* TimeFilter(end=e) for an e less than 30 days after datetime.min: the start
\* and the updated time are e.
C11_Witness ==
    /\ tlast.op = "init" /\ tlast.outcome = "ok"
    /\ tlast.start = PyNone /\ tlast.updated = PyNone
    /\ tlast.end = DateTime(DEFAULT_DAYS_GAP - 1, "naive")
    /\ tf.start = tf.end /\ tf.updated = tf.end

----------------------------------------------------------------------------
(* Claims about the location filters *)

\* lo <= x <= hi, as Python evaluates the chained comparison.
Within(lo, x, hi) == IsNumber(x) /\ Le(PyInt(lo), x) /\ Le(x, PyInt(hi))
\* The last location filter call was refused.
LocRefused == llast.outcome \notin {"ok", "none"}

\* C13: in every RectLocationFilter -90 <= min_lat <= max_lat <= 90 and
\* -360 <= min_long <= max_long <= 360; a setter accepts a number exactly when
\* it is within the limits of its field and not beyond the current opposite
\* bound, so that every longitude in [-360, 360] can be given; a refused call
\* leaves the four bounds as they were.
C13_RectInvariant ==
    /\ loc.cls = "RectLocationFilter" =>
          /\ Within(MIN_LATITUDE, loc.min_lat, MAX_LATITUDE)
          /\ Within(MIN_LATITUDE, loc.max_lat, MAX_LATITUDE)
          /\ Le(loc.min_lat, loc.max_lat)
          /\ Within(RECT_MIN_LONGITUDE, loc.min_long, RECT_MAX_LONGITUDE)
          /\ Within(RECT_MIN_LONGITUDE, loc.max_long, RECT_MAX_LONGITUDE)
          /\ Le(loc.min_long, loc.max_long)
    /\ (llast.cls = "RectLocationFilter" /\ LocRefused) => loc = llast.pre
    /\ (llast.op = "min_lat" /\ IsNumber(llast.a1)) =>
          (llast.outcome = "ok" <=>
              (Within(MIN_LATITUDE, llast.a1, MAX_LATITUDE) /\ Le(llast.a1, llast.pre.max_lat)))
    /\ (llast.op = "max_lat" /\ IsNumber(llast.a1)) =>
          (llast.outcome = "ok" <=>
              (Within(MIN_LATITUDE, llast.a1, MAX_LATITUDE) /\ Le(llast.pre.min_lat, llast.a1)))
    /\ (llast.op = "min_long" /\ IsNumber(llast.a1)) =>
          (llast.outcome = "ok" <=>
              (Within(RECT_MIN_LONGITUDE, llast.a1, RECT_MAX_LONGITUDE)
               /\ Le(llast.a1, llast.pre.max_long)))
    /\ (llast.op = "max_long" /\ IsNumber(llast.a1)) =>
          (llast.outcome = "ok" <=>
              (Within(RECT_MIN_LONGITUDE, llast.a1, RECT_MAX_LONGITUDE)
               /\ Le(llast.pre.min_long, llast.a1)))
    /\ (llast.op = "init" /\ llast.cls = "RectLocationFilter"
          /\ Within(MIN_LATITUDE, llast.a1, MAX_LATITUDE)
          /\ Within(MIN_LATITUDE, llast.a3, MAX_LATITUDE) /\ Le(llast.a1, llast.a3)
          /\ Within(RECT_MIN_LONGITUDE, llast.a2, RECT_MAX_LONGITUDE)
          /\ Within(RECT_MIN_LONGITUDE, llast.a4, RECT_MAX_LONGITUDE)
          /\ Le(llast.a2, llast.a4))
          => (llast.outcome = "ok" /\ loc.min_lat = llast.a1 /\ loc.min_long = llast.a2
              /\ loc.max_lat = llast.a3 /\ loc.max_long = llast.a4)

\* C14: in every circle filter lat is in [-90, 90] and long in [-180, 180]; the
\* radius of a CircleLocationFilter is in [0, 180] and the kilometre radius of
\* a CircleDistanceLocationFilter is at least 0; a number outside its domain
\* is refused with ValueError, and a refused setter call leaves lat, long and
\* radius as they were.
C14_CircleInvariant ==
    /\ loc.cls \in {"CircleLocationFilter", "CircleDistanceLocationFilter"} =>
          /\ Within(MIN_LATITUDE, loc.lat, MAX_LATITUDE)
          /\ Within(MIN_LONGITUDE, loc.long, MAX_LONGITUDE)
    /\ loc.cls = "CircleLocationFilter" => Within(MIN_RADIUS, loc.radius, MAX_RADIUS)
    /\ loc.cls = "CircleDistanceLocationFilter" =>
          (IsNumber(loc.radius) /\ Le(PyInt(MIN_RADIUS), loc.radius))
    /\ (llast.cls \in {"CircleLocationFilter", "CircleDistanceLocationFilter"}
          /\ LocRefused) => loc = llast.pre
    /\ (llast.op = "lat" /\ IsNumber(llast.a1)
          /\ ~Within(MIN_LATITUDE, llast.a1, MAX_LATITUDE)) => llast.outcome = "ValueError"
    /\ (llast.op = "long" /\ IsNumber(llast.a1)
          /\ ~Within(MIN_LONGITUDE, llast.a1, MAX_LONGITUDE)) => llast.outcome = "ValueError"
    /\ (llast.op = "radius" /\ IsNumber(llast.a1)
          /\ ~Within(MIN_RADIUS, llast.a1, MAX_RADIUS)) => llast.outcome = "ValueError"
    /\ (llast.op \in {"radius_km", "radius_mi"} /\ IsNumber(llast.a1)
          /\ ~Le(PyInt(MIN_RADIUS), llast.a1)) => llast.outcome = "ValueError"
    /\ (llast.op = "init" /\ llast.cls = "CircleLocationFilter"
          /\ IsNumber(llast.a1) /\ IsNumber(llast.a2) /\ IsNumber(llast.a3)
          /\ ~(/\ Within(MIN_LATITUDE, llast.a1, MAX_LATITUDE)
               /\ Within(MIN_LONGITUDE, llast.a2, MAX_LONGITUDE)
               /\ Within(MIN_RADIUS, llast.a3, MAX_RADIUS)))
          => llast.outcome = "ValueError"

\* The unit strings that are 'km' or 'mi' once the surrounding whitespace is
\* trimmed.
KmStrings == {"km", " km "}
MiStrings == {"mi", "mi "}
\* The last call was CircleDistanceLocationFilter(lat, long, radius, unit) with
\* a centre on the Earth.
DistanceCall ==
    /\ llast.op = "init" /\ llast.cls = "CircleDistanceLocationFilter"
    /\ Within(MIN_LATITUDE, llast.a1, MAX_LATITUDE)
    /\ Within(MIN_LONGITUDE, llast.a2, MAX_LONGITUDE)

\* C15: CircleDistanceLocationFilter trims the unit string and accepts exactly
\* 'km' and 'mi': any other string is refused with ValueError and no filter is
\* made; with 'km' the stored kilometre radius is the radius given, with 'mi'
\* it is the radius converted from miles to kilometres (180 mi is 290 km to
\* the nearest kilometre), and the filter made from miles is the filter made
\* from that many kilometres.
C15_UnitAccepted ==
    /\ (DistanceCall /\ llast.unit \notin KmStrings \cup MiStrings \cup {NotAString})
          => (llast.outcome = "ValueError" /\ loc = NoLocation)
    /\ (DistanceCall /\ llast.unit \in KmStrings \cup MiStrings
          /\ IsNumber(llast.a3) /\ Le(PyInt(MIN_RADIUS), llast.a3))
          => llast.outcome = "ok"
    /\ (DistanceCall /\ llast.unit \in KmStrings /\ llast.outcome = "ok")
          => RadiusKm(loc) = llast.a3
    /\ (DistanceCall /\ llast.unit \in MiStrings /\ llast.outcome = "ok")
          => /\ RadiusKm(loc) = ConvertUnits(llast.a3, MI, KM, DISTANCE_UNITS)
             /\ llast.a3 = PyInt(MAX_RADIUS) => RadiusKm(loc) = PyFloat(290)
             /\ llast.a3 = PyInt(MIN_RADIUS + 2) => RadiusKm(loc) = PyFloat(3)
             /\ Ok(loc) = CircleDistanceInit(llast.a1, llast.a2, RadiusKm(loc), KM)

\* CircleDistanceLocationFilter(0, 0, 180, "mi ") made a filter of 290 km.
C15_Witness ==
    /\ DistanceCall /\ llast.unit = "mi " /\ llast.a3 = PyInt(MAX_RADIUS)
    /\ llast.outcome = "ok" /\ RadiusKm(loc) = PyFloat(290)

\* C16: radius_km and radius_mi are two views of the stored kilometre value:
\* after radius_mi = r with r >= 0, radius_km is r converted from miles to
\* kilometres and radius_mi reads r again; after radius_km = r, radius_km
\* reads r; a negative value is refused with ValueError through either view
\* and changes neither.
C16_TwoViews ==
    /\ (llast.op = "radius_mi" /\ IsNumber(llast.a1) /\ Le(PyInt(MIN_RADIUS), llast.a1))
          => /\ llast.outcome = "ok"
             /\ RadiusKm(loc) = ConvertUnits(llast.a1, MI, KM, DISTANCE_UNITS)
             /\ NumEq(RadiusMi(loc), llast.a1)
    /\ (llast.op = "radius_km" /\ IsNumber(llast.a1) /\ Le(PyInt(MIN_RADIUS), llast.a1))
          => (llast.outcome = "ok" /\ RadiusKm(loc) = llast.a1)
    /\ (llast.op \in {"radius_km", "radius_mi"} /\ IsNumber(llast.a1)
          /\ Lt(llast.a1, PyInt(MIN_RADIUS)))
          => (llast.outcome = "ValueError" /\ loc = llast.pre)

----------------------------------------------------------------------------
(* Claims about EarthquakeFilter *)

\* The last call was a successful EarthquakeFilter(...).
EqConstructed == elast.op = "init" /\ elast.outcome = "ok"
\* The argument was None (or left out).
IsNoneArg(a) == a.ty = "NoneType"

\* C17: when location_filter is omitted, the EarthquakeFilter's location
\* filter is the whole-Earth rectangle: min_lat -90, min_long -180,
\* max_lat 90, max_long 180.
C17_DefaultRectangle ==
    (EqConstructed /\ IsNoneArg(elast.location_filter)) =>
        /\ ef.location_filter.cls = "RectLocationFilter"
        /\ ef.location_filter.min_lat = PyInt(MIN_LATITUDE)
        /\ ef.location_filter.min_long = PyInt(MIN_LONGITUDE)
        /\ ef.location_filter.max_lat = PyInt(MAX_LATITUDE)
        /\ ef.location_filter.max_long = PyInt(MAX_LONGITUDE)

\* C18: whatever the other arguments are, an omitted depth or magnitude
\* filter is (-infinity, +infinity), an omitted intensity filter is [0, 12],
\* an omitted impact level is unset, omitted minimum reports are 0, an omitted
\* time filter is TimeFilter() (end now, start 30 days before, updated = start);
\* a supplied sub-filter or scalar is stored as it was given.
C18_DefaultsFilled ==
    EqConstructed =>
        /\ IF IsNoneArg(elast.depth_filter)
           THEN /\ ef.depth_filter.cls = "DepthFilter"
                /\ ef.depth_filter.min = NegInf /\ ef.depth_filter.max = PosInf
           ELSE ef.depth_filter = elast.depth_filter.obj
        /\ IF IsNoneArg(elast.magnitude_filter)
           THEN /\ ef.magnitude_filter.cls = "MagnitudeFilter"
                /\ ef.magnitude_filter.min = NegInf /\ ef.magnitude_filter.max = PosInf
           ELSE ef.magnitude_filter = elast.magnitude_filter.obj
        /\ IF IsNoneArg(elast.intensity_filter)
           THEN /\ ef.intensity_filter.cls = "IntensityFilter"
                /\ ef.intensity_filter.min = PyInt(0) /\ ef.intensity_filter.max = PyInt(12)
           ELSE ef.intensity_filter = elast.intensity_filter.obj
        /\ IF IsNoneArg(elast.time_filter)
           THEN /\ ef.time_filter.cls = "TimeFilter"
                /\ ef.time_filter.end = elast.now
                /\ ef.time_filter.start = [elast.now EXCEPT !.v = @ - DEFAULT_DAYS_GAP]
                /\ ef.time_filter.updated = ef.time_filter.start
           ELSE ef.time_filter = elast.time_filter.obj
        /\ IsNoneArg(elast.location_filter) \/ ef.location_filter = elast.location_filter.obj
        /\ elast.pager_level = PagerNone => ef.pager_level = PagerNone
        /\ elast.pager_level \in PAGER_LEVELS => ef.pager_level = elast.pager_level
        /\ IF elast.min_reports = Omitted THEN ef.min_reports = PyInt(0)
           ELSE ef.min_reports = elast.min_reports

\* EarthquakeFilter(magnitude_filter=m, pager_level="yellow"): everything else
\* is the default and m is kept.
C18_Witness ==
    /\ EqConstructed
    /\ IsNoneArg(elast.time_filter) /\ IsNoneArg(elast.depth_filter)
    /\ IsNoneArg(elast.intensity_filter) /\ elast.min_reports = Omitted
    /\ elast.magnitude_filter.ty = "MagnitudeFilter" /\ elast.pager_level = YELLOW
    /\ ef.depth_filter.min = NegInf /\ ef.intensity_filter.max = PyInt(12)
    /\ ef.magnitude_filter.min = PyInt(1) /\ ef.min_reports = PyInt(0)

\* The sub-filter arguments of the last constructor call are all acceptable.
SubFiltersGiven ==
    /\ elast.time_filter.ty \in {"NoneType", "TimeFilter"}
    /\ elast.location_filter.ty \in {"NoneType"} \cup LocationSetterTypes
    /\ elast.depth_filter.ty \in {"NoneType", "DepthFilter"}
    /\ elast.magnitude_filter.ty \in {"NoneType", "MagnitudeFilter"}
    /\ elast.intensity_filter.ty \in {"NoneType", "IntensityFilter"}
\* The strings that are a PAGER level once trimmed, and the other strings.
LevelStrings == {"green", "yellow", "orange", "red", " red "}
OtherStrings == {"Green"}

\* C19: the impact level of an EarthquakeFilter is unset or one of 'green',
\* 'yellow', 'orange', 'red' (stored trimmed) and min_reports is an integer
\* >= 0; a constructor or setter call with another string or a negative
\* count is refused with ValueError, one with a value of the wrong kind with
\* TypeError.
C19_ImpactAndReports ==
    /\ ef.cls = "EarthquakeFilter" =>
          /\ ef.pager_level \in {PagerNone, "green", "yellow", "orange", "red"}
          /\ ef.min_reports.ty = "int" /\ ef.min_reports.v >= 0
    /\ elast.op = "pager_level" =>
          /\ elast.pager_level \in OtherStrings => elast.outcome = "ValueError"
          /\ elast.pager_level = NotAString => elast.outcome = "TypeError"
          /\ elast.pager_level \in LevelStrings \cup {PagerNone} => elast.outcome = "ok"
          /\ elast.pager_level = " red " => ef.pager_level = "red"
    /\ elast.op = "min_reports" =>
          /\ (elast.min_reports.ty = "int" /\ elast.min_reports.v < 0)
                => elast.outcome = "ValueError"
          /\ elast.min_reports.ty # "int" => elast.outcome = "TypeError"
          /\ (elast.min_reports.ty = "int" /\ elast.min_reports.v >= 0)
                => (elast.outcome = "ok" /\ ef.min_reports = elast.min_reports)
    /\ (elast.op = "init" /\ SubFiltersGiven) =>
          /\ elast.pager_level = NotAString => elast.outcome = "TypeError"
          /\ elast.pager_level \in OtherStrings => elast.outcome = "ValueError"
          /\ elast.pager_level \in LevelStrings \cup {PagerNone} =>
                /\ elast.min_reports.ty \notin {"int", "omitted"}
                      => elast.outcome = "TypeError"
                /\ (elast.min_reports.ty = "int" /\ elast.min_reports.v < 0)
                      => elast.outcome = "ValueError"
                /\ (elast.min_reports.ty = "omitted"
                    \/ (elast.min_reports.ty = "int" /\ elast.min_reports.v >= 0))
                      => elast.outcome = "ok"
          /\ (elast.outcome = "ok" /\ elast.pager_level = " red ") => ef.pager_level = "red"
    /\ elast.outcome \notin {"ok", "none"} => ef = elast.pre

\* ' red ' was assigned and is stored as 'red' after a negative count was
\* refused at construction time or later.
C19_Witness ==
    /\ elast.op = "pager_level" /\ elast.pager_level = " red "
    /\ elast.outcome = "ok" /\ ef.pager_level = "red"
    /\ elast.pre.pager_level # "red" /\ ef.min_reports.v > 0

\* What EarthquakeFilter(...) makes of the argument of the last setter call,
\* given for the same field with every other argument left out.
AsConstructed ==
    EqInit(elast.time_filter, elast.location_filter, elast.depth_filter,
           elast.magnitude_filter, elast.intensity_filter, elast.pager_level,
           elast.min_reports, DateTime(MaxDay, "naive"))
\* The fields with a setter, and whether the last setter call's value is None.
EqFields ==
    {"time_filter", "location_filter", "depth_filter", "magnitude_filter",
     "intensity_filter", "pager_level", "min_reports"}
SetNone ==
    \/ elast.op \in {"time_filter", "location_filter", "depth_filter",
                     "magnitude_filter", "intensity_filter"} /\ IsNoneArg(elast[elast.op])
    \/ elast.op = "pager_level" /\ elast.pager_level = PagerNone

\* C20: for every field and every value that is not None, the setter accepts
\* the value exactly when the constructor accepts it for that field, with the
\* same error otherwise and the same stored field; the location filters the
\* constructor accepts are those the location_filter setter accepts.
C20_SetterAsConstructor ==
    (elast.op \in EqFields /\ ~SetNone) =>
        /\ elast.outcome = AsConstructed.err
        /\ elast.outcome = "ok" => ef[elast.op] = AsConstructed.obj[elast.op]

----------------------------------------------------------------------------
(* The query serializer: claims C21 to C29 *)

\* A _get_query_string call has been made; it returned.
Serialized == query.op = "serialize"
Returned == Serialized /\ query.err = "ok"
Emitted(name) == query.params[name] # Absent
LocationNames ==
    {"minlatitude", "minlongitude", "maxlatitude", "maxlongitude",
     "latitude", "longitude", "radius", "radiuskm"}
\* The filters EarthquakeFilter() makes.
DefaultFilters ==
    {EqInit(DefaultCall.time_filter, DefaultCall.location_filter, DefaultCall.depth_filter,
            DefaultCall.magnitude_filter, DefaultCall.intensity_filter,
            DefaultCall.pager_level, DefaultCall.min_reports, now).obj : now \in NowValues}
DefaultSerialized == Serialized /\ query.filt \in DefaultFilters /\ query.limit = PyNone

\* C21: a default EarthquakeFilter() serialized with no count cap yields the
\* output format, starttime, endtime, updatedafter and the four bounds of the
\* whole-Earth rectangle (-90, -180, 90, 180), and none of mindepth, maxdepth,
\* minmag, maxmag, minmmi, maxmmi, alertlevel, minfelt and limit.
C21_DefaultQuery ==
    DefaultSerialized =>
        /\ query.err = "ok"
        /\ query.params["format"] = Text("geojson")
        /\ query.params["starttime"] = IsoFormat(query.filt.time_filter.start)
        /\ query.params["endtime"] = IsoFormat(query.filt.time_filter.end)
        /\ query.params["updatedafter"] = IsoFormat(query.filt.time_filter.updated)
        /\ query.params["minlatitude"] = PyInt(MIN_LATITUDE)
        /\ query.params["minlongitude"] = PyInt(MIN_LONGITUDE)
        /\ query.params["maxlatitude"] = PyInt(MAX_LATITUDE)
        /\ query.params["maxlongitude"] = PyInt(MAX_LONGITUDE)
        /\ \A name \in ParamNames \ {"format", "starttime", "endtime", "updatedafter",
                                     "minlatitude", "minlongitude", "maxlatitude",
                                     "maxlongitude"} : ~Emitted(name)

\* C22: every mindepth and every maxdepth the serializer emits lies in
\* [-100, 9999] km.
C22_DepthClamped ==
    Returned =>
        \A name \in {"mindepth", "maxdepth"} :
            Emitted(name) =>
                /\ Le(PyInt(MIN_DEPTH_KM), query.params[name])
                /\ Le(query.params[name], PyInt(MAX_DEPTH_KM))

\* C23: every minmag and every maxmag the serializer emits lies in [-5, 12].
C23_MagnitudeClamped ==
    Returned =>
        \A name \in {"minmag", "maxmag"} :
            Emitted(name) =>
                /\ Le(PyInt(MIN_MAGNTIUDE), query.params[name])
                /\ Le(query.params[name], PyInt(MAX_MAGNITUDE))

\* C24: mindepth, maxdepth, minmag and maxmag are each emitted if and only if
\* the bound of the filter is finite.
C24_FiniteEmitted ==
    Returned =>
        /\ Emitted("mindepth") <=> query.filt.depth_filter.min.k = "fin"
        /\ Emitted("maxdepth") <=> query.filt.depth_filter.max.k = "fin"
        /\ Emitted("minmag") <=> query.filt.magnitude_filter.min.k = "fin"
        /\ Emitted("maxmag") <=> query.filt.magnitude_filter.max.k = "fin"

\* The location parameters a query has.
EmittedLocation == {name \in LocationNames : Emitted(name)}
\* C25: a rectangle emits exactly its four bounds; a circle by degrees emits
\* latitude, longitude and its radius as it is; a circle by distance emits
\* latitude, longitude and radiuskm, the radius in km or 99999 when the radius
\* is greater.  No query has both bounds and a point, or both radius and
\* radiuskm.
C25_LocationParams ==
    Returned =>
        LET l == query.filt.location_filter
            p == query.params
        IN /\ l.cls = "RectLocationFilter" =>
                /\ EmittedLocation = {"minlatitude", "minlongitude", "maxlatitude", "maxlongitude"}
                /\ p["minlatitude"] = l.min_lat /\ p["minlongitude"] = l.min_long
                /\ p["maxlatitude"] = l.max_lat /\ p["maxlongitude"] = l.max_long
           /\ l.cls = "CircleLocationFilter" =>
                /\ EmittedLocation = {"latitude", "longitude", "radius"}
                /\ p["latitude"] = l.lat /\ p["longitude"] = l.long
                /\ p["radius"] = l.radius
           /\ l.cls = "CircleDistanceLocationFilter" =>
                /\ EmittedLocation = {"latitude", "longitude", "radiuskm"}
                /\ p["latitude"] = l.lat /\ p["longitude"] = l.long
                /\ p["radiuskm"] = IF Gt(l.radius, PyInt(MAX_RADIUS_KM))
                                   THEN PyInt(MAX_RADIUS_KM) ELSE l.radius
           /\ ~({"minlatitude", "latitude"} \subseteq EmittedLocation)
           /\ ~({"radius", "radiuskm"} \subseteq EmittedLocation)
\* A circle by distance wider than the service accepts has been serialized.
C25_Witness ==
    /\ Returned
    /\ query.filt.location_filter.cls = "CircleDistanceLocationFilter"
    /\ Gt(query.filt.location_filter.radius, PyInt(MAX_RADIUS_KM))
    /\ query.params["radiuskm"] = PyInt(MAX_RADIUS_KM)

\* C26: limit is emitted if and only if a count cap is given, and its value
\* is the cap, or 20000 when the cap is greater.
C26_LimitClamped ==
    Returned =>
        /\ Emitted("limit") <=> query.limit # PyNone
        /\ query.limit # PyNone =>
              query.params["limit"] = IF Gt(query.limit, PyInt(20000))
                                      THEN PyInt(20000) ELSE query.limit

\* C27: for min_reports > 0 the minfelt emitted is min_reports, or 999999999
\* when min_reports is greater.
C27_ReportsClamped ==
    Returned /\ Gt(query.filt.min_reports, PyInt(0)) =>
        query.params["minfelt"] = IF Gt(query.filt.min_reports, PyInt(MAX_REPORTS))
                                  THEN PyInt(MAX_REPORTS) ELSE query.filt.min_reports

\* C28: a serialization that returns emits minmmi iff the intensity minimum
\* differs from 0 and maxmmi iff the intensity maximum differs from 12, both
\* as they are; alertlevel iff a PAGER level is set; minfelt iff min_reports is
\* not zero; and format, starttime, endtime and updatedafter always.
C28_OmissionRules ==
    Returned =>
        LET f == query.filt
            p == query.params
        IN /\ Emitted("minmmi") <=> ~NumEq(f.intensity_filter.min, PyInt(0))
           /\ Emitted("minmmi") => p["minmmi"] = f.intensity_filter.min
           /\ Emitted("maxmmi") <=> ~NumEq(f.intensity_filter.max, PyInt(12))
           /\ Emitted("maxmmi") => p["maxmmi"] = f.intensity_filter.max
           /\ Emitted("alertlevel") <=> f.pager_level # PagerNone
           /\ Emitted("alertlevel") => p["alertlevel"] = Text(f.pager_level)
           /\ Emitted("minfelt") <=> ~NumEq(f.min_reports, PyInt(0))
           /\ \A name \in {"format", "starttime", "endtime", "updatedafter"} : Emitted(name)
\* A filter whose intensity bounds, PAGER level and number of reports are all
\* set has been serialized with each of them emitted.
C28_Witness ==
    /\ Returned
    /\ Emitted("minmmi") /\ Emitted("maxmmi") /\ Emitted("alertlevel") /\ Emitted("minfelt")
    /\ query.filt.intensity_filter.min = PyInt(6)

\* C29: serialization never raises, for every filter that the constructor
\* and the setters accept and every limit.
C29_NeverRaises == Serialized => query.err = "ok"

----------------------------------------------------------------------------
(* count() on several threads: claim C30 *)

\* The call of a frame is over, and what it returned or raised and the
\* number of its attempts are those its own arguments and the outcomes of its
\* own attempts give: the error of the argument checks and no attempt; or the
\* outcome of its last attempt, every attempt before it having failed, the
\* last being the first to return or the one after retry_count failures.
Finished(frame) == frame.pc \in {"returned", "raised"}
OwnOutcome(frame) ==
    IF ValidateArgs(frame.args) # NoError
    THEN frame.result = ValidateArgs(frame.args) /\ frame.log = <<>>
    ELSE LET n == Len(frame.log)
         IN /\ n >= 1
            /\ frame.result = frame.log[n]
            /\ \A k \in 1..(n - 1) : frame.log[k].kind = "raise"
            /\ n <= ClampRetry(frame.args.retry_count) + 1
            /\ frame.log[n].kind = "return" \/ n = ClampRetry(frame.args.retry_count) + 1

\* C30: count() calls on independent threads, each with its own filter, do
\* not interfere under any interleaving: a step of one call changes the frame
\* of no other call, and every finished call's result and number of attempts
\* are determined by its own arguments and its own attempts' outcomes.
C30_NoInterference ==
    [][/\ \A t, u \in Threads : t # u /\ th'[t] # th[t] => th'[u] = th[u]
       /\ \A t \in Threads : Finished(th'[t]) => OwnOutcome(th'[t])]_vars
\* Two calls are in flight at once, with different budgets, each after an
\* attempt of its own that failed.
C30_Witness ==
    /\ th[1].pc = "loop" /\ th[2].pc = "loop"
    /\ th[1].args.retry_count # th[2].args.retry_count
    /\ Len(th[1].log) = 1 /\ Len(th[2].log) = 1

----------------------------------------------------------------------------
(* DepthFilter in miles: claim C31 *)

\* The last call is DepthFilter(min, max, unit) with two numbers and a str.
DepthCall ==
    /\ last.op = "init" /\ last.cls = "DepthFilter"
    /\ IsNumber(last.arg) /\ IsNumber(last.arg2) /\ last.unit # NotAString

----------------------------------------------------------------------------
(* TimeFilter setters: claim C32 *)

\* C32: the defaults of a TimeFilter are not recomputed after construction: a
\* successful set of end leaves start and updated as they were, a successful
\* set of start leaves end and updated as they were, and a set of updated
\* leaves start and end as they were.
C32_DefaultsNotRecomputed ==
    /\ (tlast.op = "set_end" /\ tlast.outcome = "ok") =>
          /\ tf.end = tlast.arg
          /\ tf.start = tlast.pre.start /\ tf.updated = tlast.pre.updated
    /\ (tlast.op = "set_start" /\ tlast.outcome = "ok") =>
          /\ tf.start = tlast.arg
          /\ tf.end = tlast.pre.end /\ tf.updated = tlast.pre.updated
    /\ tlast.op = "set_updated" =>
          /\ tf.start = tlast.pre.start /\ tf.end = tlast.pre.end
\* The end of a filter has been moved to a later day; the start is still the
\* earlier end minus 30 days and the updated time still that start.
C32_Witness ==
    /\ tlast.op = "set_end" /\ tlast.outcome = "ok"
    /\ tlast.arg.v > tlast.pre.end.v
    /\ tlast.pre.start.v = tlast.pre.end.v - DEFAULT_DAYS_GAP
    /\ tf.start = tlast.pre.start /\ tf.updated = tf.start

----------------------------------------------------------------------------
(* EarthquakeFilter assignment: claim C33 *)

\* The field an EarthquakeFilter setter call assigns, and the value the call
\* stores in it: the object given, the PAGER level stripped, the number of
\* reports.
Setters ==
    {"time_filter", "location_filter", "depth_filter", "magnitude_filter",
     "intensity_filter", "pager_level", "min_reports"}
StoredValue ==
    CASE elast.op = "pager_level" ->
            IF elast.pager_level = PagerNone THEN PagerNone ELSE Strip(elast.pager_level)
      [] elast.op = "min_reports" -> elast.min_reports
      [] OTHER -> elast[elast.op].obj

\* C33: a successful setter call of an EarthquakeFilter makes its field the
\* value given (the PAGER level stripped) and leaves the six other fields as
\* they were; a setter call that fails leaves all seven fields as they were.
C33_AssignmentReplaces ==
    elast.op \in Setters =>
        IF elast.outcome = "ok"
        THEN /\ ef[elast.op] = StoredValue
             /\ \A field \in Setters \ {elast.op} : ef[field] = elast.pre[field]
        ELSE /\ elast.outcome \in {"TypeError", "ValueError"}
             /\ ef = elast.pre
\* A depth filter has been assigned to a filter that held another one and
\* whose PAGER level was given with spaces around it.
C33_Witness ==
    /\ elast.op = "depth_filter" /\ elast.outcome = "ok"
    /\ ef.depth_filter # elast.pre.depth_filter
    /\ ef.depth_filter = elast.depth_filter.obj
    /\ ef.pager_level = RED

----------------------------------------------------------------------------
(* Ownership of the sub-filters: claim C34 *)

\* C34: the sub-filters read through an EarthquakeFilter change only through
\* operations on the EarthquakeFilter: a step that is no constructor or
\* setter call of the EarthquakeFilter, such as a later assignment by the
\* caller through the reference it passed in, leaves every field as it was.
C34_ExclusiveOwnership ==
    [][(ef.cls = "EarthquakeFilter" /\ elast' = elast) => ef' = ef]_vars

----------------------------------------------------------------------------
(* count() with retry_count None: claim C35 *)

\* C35: with retry_count None count() keeps sending requests until one
\* succeeds: the call never raises the error of a failed attempt, and when it
\* returns it returns the count of its last attempt, which succeeded.
C35_NoneRetriesForever ==
    (Validated /\ args.retry_count = PyNone) =>
        /\ pc # "raised"
        /\ pc = "returned" =>
              (log[Len(log)].kind = "return" /\ result = log[Len(log)])

----------------------------------------------------------------------------
(* The order of the serialized ranges: claim C36 *)

\* C36: whenever mindepth and maxdepth are both emitted mindepth <= maxdepth,
\* and whenever minmag and maxmag are both emitted minmag <= maxmag.
C36_RangeOrderKept ==
    Returned =>
        /\ (Emitted("mindepth") /\ Emitted("maxdepth")) =>
              Le(query.params["mindepth"], query.params["maxdepth"])
        /\ (Emitted("minmag") /\ Emitted("maxmag")) =>
              Le(query.params["minmag"], query.params["maxmag"])

----------------------------------------------------------------------------
(* The requests of one count() call: claim C37 *)

\* C37: every attempt of a count() call serializes the filter without a
\* count cap and leaves the filter as it is: its query has no limit, and when
\* the filter is the one the attempt before serialized, the query is the one
\* the attempt before made.
C37_SameQueryNoLimit ==
    [][calls' # calls =>
          /\ query'.op = "count" /\ query'.filt = ef
          /\ ef' = ef
          /\ query'.params["limit"] = Absent
          /\ (query.op = "count" /\ query.filt = ef) =>
                (query'.params = query.params /\ query'.err = query.err)]_vars
\* A third attempt has sent the query of the two before it, with the circle
\* and the bounds of a filter that has them all.
C37_Witness ==
    /\ calls = 3 /\ Len(log) = 3
    /\ query.op = "count" /\ query.err = "ok" /\ query.filt = ef
    /\ query.params["radiuskm"] # Absent /\ query.params["mindepth"] # Absent
    /\ elast.op = "init"

----------------------------------------------------------------------------
(* The text of a DepthFilter: claim C38 *)

\* C38: str(depth_filter) has the minimum in km and in miles on the "Minimum
\* depth" line, or "No restriction" when the minimum is -inf, and the maximum
\* in km and in miles on the "Maximum depth" line, or "No restriction" when
\* the maximum is +inf.
C38_DepthText ==
    text # NoText =>
        LET d == text.of
        IN /\ text.minimum =
                 IF d.min = NegInf THEN NoRestriction
                 ELSE DepthLine(d.min, ConvertUnits(d.min, KM, MI, DISTANCE_UNITS))
           /\ text.maximum =
                 IF d.max = PosInf THEN NoRestriction
                 ELSE DepthLine(d.max, ConvertUnits(d.max, KM, MI, DISTANCE_UNITS))

----------------------------------------------------------------------------
(* Unit conversion: claim C39 *)

Abs(n) == IF n < 0 THEN -n ELSE n

\* Both units of the last conversion are keys of its table.
UnitsPresent == conv.from \in DOMAIN conv.units /\ conv.to \in DOMAIN conv.units

\* C39: _convert_units(value, from, to, table) returns value * (table[from] /
\* table[to]) when both units are in the table: a float r with r * table[to]
\* equal to value * table[from] to the precision of a float (an infinity when
\* the product is too large for a float, the value itself when it is an
\* infinity or a NaN), the value itself when from = to; it raises KeyError
\* when a unit is absent; and it leaves the table as it was.
C39_ConvertUnits ==
    conv.op = "call" =>
        /\ conv.after = conv.units
        /\ ~UnitsPresent => conv.outcome = "KeyError"
        /\ UnitsPresent =>
              LET r == conv.result
                  v == conv.value
                  f == conv.units[conv.from]
                  t == conv.units[conv.to]
              IN /\ conv.outcome = "ok"
                 /\ r.ty = "float"
                 /\ v.k # "fin" => r = v
                 /\ (v.k = "fin" /\ r.k = "fin") => 2 * Abs(r.v * t - v.v * f) <= t
                 /\ (v.k = "fin" /\ r.k # "fin") =>
                        /\ 2 * Abs(v.v * f) > 2 * MaxFloat * t
                        /\ r = IF v.v > 0 THEN PosInf ELSE NegInf
                 /\ conv.from = conv.to => (r.k = v.k /\ r.v = v.v)

\* A finite value converted between two different units of the table.
C39_Witness ==
    /\ conv.op = "call" /\ conv.outcome = "ok"
    /\ conv.from = MI /\ conv.to = KM
    /\ conv.value = PyInt(3) /\ conv.result = PyFloat(5)
====
